---------------------------- MODULE Spec2Model ----------------------------
(***************************************************************************)
(* Ramses-Py: the file-name codec and the version history of               *)
(* ramses/file_manager.py (class RamFileManager).                          *)
(*                                                                         *)
(* A Python str is a sequence of one-character strings; None is the value  *)
(* None; a path is the sequence of the names between its '/'.              *)
(*                                                                         *)
(* A value used more than once is bound once, as the x of                  *)
(* Only({e(x) : x \in {value}}) or of \E x \in {value} : e(x).             *)
(***************************************************************************)
EXTENDS Integers, Sequences, FiniteSets, TLC

VARIABLES
    fs,              \* the entries of the disk: path -> [kind, content, mtime]
    versionPrefixes, \* settings().versionPrefixes, a Python list
    last,            \* the last RamFileManager call: its arguments and what it returned
    codec,           \* the name-codec pipeline: decompose, compose, decompose
    threads          \* the calls that run side by side: where each one is, what it holds

vars == <<fs, versionPrefixes, last, codec, threads>>

-----------------------------------------------------------------------------
(* Characters *)

DigitChars == <<"0", "1", "2", "3", "4", "5", "6", "7", "8", "9">>
LowerChars == <<"a", "b", "c", "d", "e", "f", "g", "h", "i", "j", "k", "l", "m",
                "n", "o", "p", "q", "r", "s", "t", "u", "v", "w", "x", "y", "z">>
UpperChars == <<"A", "B", "C", "D", "E", "F", "G", "H", "I", "J", "K", "L", "M",
                "N", "O", "P", "Q", "R", "S", "T", "U", "V", "W", "X", "Y", "Z">>

Range(s) == {s[i] : i \in DOMAIN s}

DigitSet == Range(DigitChars)
LetterSet == Range(LowerChars) \cup Range(UpperChars)
\* \s of the re module, for ASCII text
WhiteSpace == {" ", "\t", "\n", "\r", "\f"}
\* [a-z0-9+-] under re.IGNORECASE
IdChars == LetterSet \cup DigitSet \cup {"+", "-"}
\* [a-z0-9+\s-] under re.IGNORECASE
ResourceChars == IdChars \cup WhiteSpace
\* [a-z0-9.] under re.IGNORECASE
ExtChars == LetterSet \cup DigitSet \cup {"."}

DigitVal == [c \in DigitSet |-> (CHOOSE i \in 1..10 : DigitChars[i] = c) - 1]

\* re.IGNORECASE compares characters by their lower-case form
LowerOf == [c \in Range(UpperChars) |-> LowerChars[CHOOSE i \in 1..26 : UpperChars[i] = c]]
Lower(c) == IF c \in DOMAIN LowerOf THEN LowerOf[c] ELSE c
LowerStr(s) == [i \in DOMAIN s |-> Lower(s[i])]

AllIn(s, S) == \A i \in DOMAIN s : s[i] \in S

\* the element of a set of one element
Only(S) == CHOOSE x \in S : TRUE

\* the value None, where a str is expected
None == <<"None">>

-----------------------------------------------------------------------------
(* Python built-ins on str and int *)

\* int(s) for a run of decimal digits
RECURSIVE intOfFirst(_, _)
intOfFirst(s, n) == IF n = 0 THEN 0 ELSE 10 * intOfFirst(s, n - 1) + DigitVal[s[n]]
int(s) == intOfFirst(s, Len(s))

\* str(i)
RECURSIVE NatStr(_)
NatStr(i) == IF i < 10 THEN <<DigitChars[i + 1]>>
             ELSE NatStr(i \div 10) \o <<DigitChars[(i % 10) + 1]>>
str(i) == IF i < 0 THEN <<"-">> \o NatStr(-i) ELSE NatStr(i)

\* the position of the first c in s, 0 when there is none
FirstIndex(s, c) ==
    IF \E i \in DOMAIN s : s[i] = c
    THEN CHOOSE i \in DOMAIN s : s[i] = c /\ \A j \in 1..(i - 1) : s[j] # c
    ELSE 0

\* the j-th smallest number of P
Nth(P, j) == CHOOSE i \in P : Cardinality({x \in P : x < i}) = j - 1

\* the maximal runs of s between the separators c
Tokens(s, c) ==
    Only({[j \in 1..(Cardinality(P) + 1) |->
              SubSeq(s, (IF j = 1 THEN 0 ELSE Nth(P, j - 1)) + 1,
                        (IF j = Cardinality(P) + 1 THEN Len(s) + 1 ELSE Nth(P, j)) - 1)]
          : P \in {{i \in DOMAIN s : s[i] = c}}})

-----------------------------------------------------------------------------
(* Configuration *)

\* ItemType.ASSET, ItemType.SHOT, ItemType.GENERAL
ASSET == <<"A">>
SHOT == <<"S">>
GENERAL == <<"G">>

\* the short names of RamSettings.defaultStates, which Ramses.states() returns
StateShortNames == << <<"N", "O">>, <<"T", "O", "D", "O">>, <<"W", "I", "P">>, <<"O", "K">> >>

\* settings().versionPrefixes as the settings are created
InitialVersionPrefixes == << <<"v">>, <<"p", "u", "b">> >>

\* FolderNames
VersionsFolderName == <<"_", "v", "e", "r", "s", "i", "o", "n", "s">>
PreviewFolderName == <<"_", "p", "r", "e", "v", "i", "e", "w">>
PublishFolderName == <<"_", "p", "u", "b", "l", "i", "s", "h", "e", "d">>

-----------------------------------------------------------------------------
(* RamFileManager: the name codec *)

\* utils.intToStr: the decimal digits of i, zero-padded to three digits
RECURSIVE ZeroPad(_, _)
ZeroPad(s, numDigits) == IF Len(s) < numDigits THEN ZeroPad(<<"0">> \o s, numDigits) ELSE s
intToStr(i) == ZeroPad(str(i), 3)

\* the character U+0060 (grave accent), which a string of this notation cannot hold
GraveAccent == "U+0060"

\* a remap table one of whose replacements is itself a forbidden character
forbiddenCharactersChained ==
    [c \in {"\"", "_", "[", "]", "{", "}", "(", ")", "'", GraveAccent, ".", "/", "\\", ","} |->
        IF c \in {"\"", "'", GraveAccent, ","} THEN " " ELSE IF c = "_" THEN "." ELSE "-"]

\* the remap table of _fixResourceStr
forbiddenCharacters ==
    [c \in {"\"", "_", "[", "]", "{", "}", "(", ")", "'", GraveAccent, ".", "/", "\\", ","} |->
        IF c \in {"\"", "'", GraveAccent, ","} THEN " " ELSE "-"]

fixResourceStr(resourceStr) ==
    [i \in DOMAIN resourceStr |->
        IF resourceStr[i] \in DOMAIN forbiddenCharacters
        THEN forbiddenCharacters[resourceStr[i]]
        ELSE resourceStr[i]]

\* _getVersionRegExStr: the list the settings hold once every state's short name has
\* been appended to it; the regular expression is the alternation of its elements
getVersionRegExStr(prefixes) == prefixes \o StateShortNames

\* t begins with prefix p, compared as re.IGNORECASE compares
PrefixMatches(p, t) == Len(p) <= Len(t) /\ LowerStr(SubSeq(t, 1, Len(p))) = LowerStr(p)

\* (?:PFX)?[0-9]+ matches at the first character of t
VersionBlockAhead(alts, t) ==
    \E p \in Range(alts) \cup {<<>>} :
        PrefixMatches(p, t) /\ Len(t) > Len(p) /\ t[Len(p) + 1] \in DigitSet

\* ((?!(?:PFX)?[0-9]+)[a-z0-9+\s-]+) matches the whole of t
ResourceBlock(alts, t) ==
    t # <<>> /\ AllIn(t, ResourceChars) /\ ~VersionBlockAhead(alts, t)

\* p followed by digits only is the whole of t
PrefixThenDigits(p, t) ==
    /\ PrefixMatches(p, t)
    /\ Len(t) > Len(p)
    /\ AllIn(SubSeq(t, Len(p) + 1, Len(t)), DigitSet)

\* (PFX)?([0-9]+) matches the whole of t
VersionBlock(alts, t) ==
    \E p \in Range(alts) \cup {<<>>} : PrefixThenDigits(p, t)

\* the text group (PFX) captures in t: that of the first alternative that matches,
\* None when the group takes no part in the match
VersionPrefixGroup(alts, t) ==
    IF \E i \in DOMAIN alts : PrefixThenDigits(alts[i], t)
    THEN LET i == CHOOSE k \in DOMAIN alts :
                    /\ PrefixThenDigits(alts[k], t)
                    /\ \A j \in 1..(k - 1) : ~PrefixThenDigits(alts[j], t)
         IN  SubSeq(t, 1, Len(alts[i]))
    ELSE None

\* the text group ([0-9]+) captures in t
VersionDigitsGroup(alts, t) ==
    LET p == VersionPrefixGroup(alts, t)
    IN  IF p = None THEN t ELSE SubSeq(t, Len(p) + 1, Len(t))

\* ([a-z0-9+-]{1,10}) matches the whole of t
IdBlock(t) == Len(t) \in 1..10 /\ AllIn(t, IdChars)

NoMatch == [matched |-> FALSE]

\* the text before the first '.' of a name, and the text after it
stemOf(name) == SubSeq(name, 1, FirstIndex(name, ".") - 1)
afterDot(name) == SubSeq(name, FirstIndex(name, ".") + 1, Len(name))

\* the nine groups for the blocks t before the first '.' and the text ext after it
BlocksMatch(alts, t, ext) ==
    LET n    == Len(t)
        isAS == n >= 4 /\ Len(t[2]) = 1 /\ Lower(t[2][1]) \in {"a", "s"}
        isG  == n >= 3 /\ Len(t[2]) = 1 /\ Lower(t[2][1]) = "g"
        k    == IF isAS THEN 4 ELSE 3
        rest == SubSeq(t, k + 1, n)
        hasResource == Len(rest) >= 1 /\ ResourceBlock(alts, rest[1])
        versionAt   == IF hasResource THEN 2 ELSE 1
        hasVersion  == Len(rest) = versionAt
        ok == /\ ext # <<>>
              /\ AllIn(ext, ExtChars)
              /\ isAS \/ isG
              /\ IdBlock(t[1])
              /\ isAS => IdBlock(t[3])
              /\ IdBlock(t[k])
              /\ Len(rest) <= versionAt
              /\ hasVersion => VersionBlock(alts, rest[versionAt])
    IN  IF ~ok THEN NoMatch
        ELSE [matched |-> TRUE,
              g1 |-> t[1],
              g2 |-> IF isAS THEN t[2] ELSE None,
              g3 |-> IF isAS THEN t[3] ELSE None,
              g4 |-> IF isAS THEN None ELSE t[2],
              g5 |-> t[k],
              g6 |-> IF hasResource THEN rest[1] ELSE None,
              g7 |-> IF hasVersion THEN VersionPrefixGroup(alts, rest[versionAt]) ELSE None,
              g8 |-> IF hasVersion THEN VersionDigitsGroup(alts, rest[versionAt]) ELSE None,
              g9 |-> ext]

\* re.match(_getRamsesNameRegEx(), name): the nine groups, or NoMatch.
\* No block before the extension can hold '_' or '.', so the blocks are the runs
\* between the '_' of the text before the first '.'.
RamsesNameMatch(alts, name) ==
    IF FirstIndex(name, ".") = 0 THEN NoMatch
    ELSE Only({BlocksMatch(alts, t, ext) :
                t \in {Tokens(stemOf(name), "_")}, ext \in {afterDot(name)}})

\* what decomposeRamsesFileName returns for None
NoneDict == [isNone |-> TRUE]

\* decomposeRamsesFileName: the blocks of the match m
blocksOf(m) ==
    LET optionalBlock(g) == IF g # None THEN g ELSE <<>>
    IN  IF ~m.matched THEN NoneDict
        ELSE [projectID       |-> m.g1,
              ramType         |-> IF m.g2 \in {ASSET, SHOT} THEN m.g2 ELSE m.g4,
              objectShortName |-> IF m.g2 \in {ASSET, SHOT} THEN m.g3 ELSE <<>>,
              ramStep         |-> m.g5,
              resourceStr     |-> optionalBlock(m.g6),
              state           |-> optionalBlock(m.g7),
              version         |-> IF optionalBlock(m.g8) = <<>> THEN -1 ELSE int(m.g8),
              extension       |-> optionalBlock(m.g9)]

\* decomposeRamsesFileName, for the list prefixes that _getVersionRegExStr leaves
decomposeRamsesFileName(alts, ramsesFileName) ==
    Only({blocksOf(m) : m \in {RamsesNameMatch(alts, ramsesFileName)}})

\* what a call returns when it raises
Raised == <<"raised">>

\* buildRamsesFileName; str + None raises TypeError
buildRamsesFileName(project, step, ext, ramType, objectShortName, resourceStr, version, version_prefix) ==
    LET resource == fixResourceStr(resourceStr)
        n1 == project \o <<"_">> \o ramType
        n2 == IF ramType \in {ASSET, SHOT} THEN n1 \o <<"_">> \o objectShortName ELSE n1
        n3 == n2 \o <<"_">> \o step
        n4 == IF resource # <<>> THEN n3 \o <<"_">> \o resource ELSE n3
        n5 == IF version # -1 THEN n4 \o <<"_">> \o version_prefix \o intToStr(version) ELSE n4
        n6 == IF ext # <<>>
              THEN n5 \o (IF ext[1] # "." THEN <<".">> ELSE <<>>) \o ext
              ELSE n5
    IN  IF ramType = None THEN Raised ELSE n6

\* composeRamsesFileName
composeRamsesFileName(d, increment) ==
    LET version == IF increment
                   THEN (IF d.version <= 0 THEN 1 ELSE d.version + 1)
                   ELSE d.version
    IN  buildRamsesFileName(d.projectID, d.ramStep, d.extension, d.ramType,
                            d.objectShortName, d.resourceStr, version, d.state)


-----------------------------------------------------------------------------
(* The names given to the codec *)

\* the first n of the tokens, sep between them
RECURSIVE JoinFirst(_, _, _)
JoinFirst(tokens, sep, n) ==
    IF n = 0 THEN <<>>
    ELSE IF n = 1 THEN tokens[1]
    ELSE JoinFirst(tokens, sep, n - 1) \o <<sep>> \o tokens[n]
Join(tokens, sep) == JoinFirst(tokens, sep, Len(tokens))

Absent == <<>>

ProjectTokens == {<<"F", "P", "E">>}
TypeTokens == {<<"A">>, <<"S">>, <<"G">>, <<"a">>, <<"g">>, <<"X">>}
ObjectTokens == {<<"T", "R", "I">>}
StepTokens == {<<"M", "O", "D">>}
ResourceTokens == {<<"r", "e", "s">>,
                   <<"v", "2", "f", "i", "n", "a", "l">>,
                   <<"3", "d">>,
                   <<"+", "r", "e", "s", "t", "o", "r", "e", "d", "-", "v", "3", "+">>,
                   <<"a", " ", "b">>,
                   <<"o", "k", "2", "g", "o">>}
VersionTokens == {<<"v", "0", "0", "3">>,
                  <<"1", "2">>,
                  <<"w", "i", "p", "1">>,
                  <<"W", "I", "P", "0", "2">>,
                  <<"v", "1", "0", "0", "0">>,
                  <<"v">>,
                  <<"p", "u", "b", "0">>}
ExtensionTokens == {<<"b", "l", "e", "n", "d">>,
                    <<".", "b", "l", "e", "n", "d">>,
                    <<"t", "a", "r", ".", "g", "z">>,
                    <<"b", "_", "d">>}

\* project_type[_object]_step[_resource][_version][.extension]
NameOf(project, type, object, step, resource, version, extension) ==
    Join(<<project, type>>
            \o (IF object = Absent THEN <<>> ELSE <<object>>)
            \o <<step>>
            \o (IF resource = Absent THEN <<>> ELSE <<resource>>)
            \o (IF version = Absent THEN <<>> ELSE <<version>>), "_")
        \o (IF extension = Absent THEN <<>> ELSE <<".">> \o extension)

CodecNames ==
    {NameOf(p, t, o, s, r, v, e) :
        p \in ProjectTokens, t \in TypeTokens, o \in ObjectTokens \cup {Absent},
        s \in StepTokens, r \in ResourceTokens \cup {Absent},
        v \in VersionTokens \cup {Absent}, e \in ExtensionTokens \cup {Absent}}


-----------------------------------------------------------------------------
(* The disk: os, os.path and shutil *)

\* A path is the sequence of the names between its '/'; '' is <<>>.
basename(p) == IF p = <<>> THEN <<>> ELSE p[Len(p)]
dirname(p) == IF p = <<>> THEN <<>> ELSE SubSeq(p, 1, Len(p) - 1)

isfile(fsys, p) == p \in DOMAIN fsys /\ fsys[p].kind = "file"
isdir(fsys, p) == p = <<>> \/ (p \in DOMAIN fsys /\ fsys[p].kind = "dir")

\* the names os.listdir returns, which it returns in arbitrary order
listdir(fsys, folder) ==
    {basename(p) : p \in {q \in DOMAIN fsys : q # <<>> /\ dirname(q) = folder}}

Orderings(S) ==
    {f \in [1..Cardinality(S) -> S] : \A i, j \in 1..Cardinality(S) : i # j => f[i] # f[j]}

Directory == [kind |-> "dir", content |-> 0, mtime |-> 0]

\* os.makedirs: the folder and every missing parent of it
makedirs(fsys, folder) ==
    LET missing == {SubSeq(folder, 1, k) : k \in 1..Len(folder)} \ DOMAIN fsys
    IN  [q \in missing |-> Directory] @@ fsys

\* shutil.copy2: content and modification time; into dst when dst is a directory
\* copy2 as a move: the source is gone once the copy is written
copy2AsMove(fsys, src, dst) ==
    LET target == IF isdir(fsys, dst) THEN dst \o <<basename(src)>> ELSE dst
    IN  [q \in (DOMAIN fsys \cup {target}) \ {src} |->
            IF q = target
            THEN [kind |-> "file", content |-> fsys[src].content, mtime |-> fsys[src].mtime]
            ELSE fsys[q]]

copy2(fsys, src, dst) ==
    LET target == IF isdir(fsys, dst) THEN dst \o <<basename(src)>> ELSE dst
    IN  (target :> [kind |-> "file", content |-> fsys[src].content, mtime |-> fsys[src].mtime])
            @@ fsys

-----------------------------------------------------------------------------
(* RamFileManager: folders *)

inPreviewFolder(path) == basename(dirname(path)) = PreviewFolderName
inPublishFolder(path) == basename(dirname(path)) = PublishFolderName
inVersionsFolder(path) == basename(dirname(path)) = VersionsFolderName
inReservedFolder(path) ==
    basename(dirname(path)) \in {VersionsFolderName, PublishFolderName, PreviewFolderName}

\* versionFolderOf as the child of the folder of the file, wherever the file lies
versionFolderBelow(filePath) == dirname(filePath) \o <<VersionsFolderName>>

\* the folder getVersionFolder returns
versionFolderOf(filePath) ==
    LET fileFolder == dirname(filePath)
    IN  IF inVersionsFolder(filePath) THEN fileFolder
        ELSE IF inPublishFolder(filePath) \/ inPreviewFolder(filePath)
             THEN dirname(fileFolder) \o <<VersionsFolderName>>
             ELSE fileFolder \o <<VersionsFolderName>>

\* getVersionFolder: the folder, and the disk once it has created the folder
getVersionFolder(fsys, filePath) ==
    LET versionsFolder == versionFolderOf(filePath)
    IN  [folder |-> versionsFolder,
         fs     |-> IF ~isdir(fsys, versionsFolder) THEN makedirs(fsys, versionsFolder) ELSE fsys]

\* the folder getPublishFolder returns
publishFolderOf(filePath) ==
    LET fileFolder == dirname(filePath)
    IN  IF inPublishFolder(filePath) THEN fileFolder
        ELSE IF inVersionsFolder(filePath) \/ inPreviewFolder(filePath)
             THEN dirname(fileFolder) \o <<PublishFolderName>>
             ELSE fileFolder \o <<PublishFolderName>>

\* getPublishFolder: the folder, and the disk once it has created the folder
getPublishFolder(fsys, filePath) ==
    LET publishFolder == publishFolderOf(filePath)
    IN  [folder |-> publishFolder,
         fs     |-> IF ~isdir(fsys, publishFolder) THEN makedirs(fsys, publishFolder) ELSE fsys]

-----------------------------------------------------------------------------
(* RamFileManager: the version history *)

\* the list the settings hold after that many calls of decomposeRamsesFileName
RECURSIVE afterCalls(_, _)
afterCalls(prefixes, calls) ==
    IF calls = 0 THEN prefixes ELSE afterCalls(getVersionRegExStr(prefixes), calls - 1)

\* getLatestVersionFilePath: none of the five `continue` on the blocks of the name is taken
sameBlocksLatest(decomposedFoundFile, decomposedFileName) ==
    /\ decomposedFoundFile.projectID = decomposedFileName.projectID
    /\ decomposedFoundFile.ramType = decomposedFileName.ramType
    /\ decomposedFoundFile.objectShortName = decomposedFileName.objectShortName
    /\ decomposedFoundFile.ramStep = decomposedFileName.ramStep
    /\ decomposedFoundFile.resourceStr = decomposedFileName.resourceStr

\* getLatestVersionFilePath: the candidate of that version replaces the one held
isHigher(version, highestVersion) == version > highestVersion

\* getLatestVersionFilePath: the candidate is skipped for having no version block
skipsUnversioned(decomposedFoundFile) == decomposedFoundFile.version = -1

\* skipsEntryLatest without the os.path.isfile test
skipsNoEntry(fsys, foundFilePath) == FALSE

\* getLatestVersionFilePath: the entry is skipped before its name is looked at
skipsEntryLatest(fsys, foundFilePath) == ~isfile(fsys, foundFilePath)

\* getLatestVersionFilePath: one turn of the loop over foundFiles.
\* None['projectID'] raises TypeError.
LatestStep(fsys, alts, versionsFolder, decomposedFileName, acc, foundFile) ==
    IF acc.raised \/ skipsEntryLatest(fsys, versionsFolder \o <<foundFile>>) THEN acc
    ELSE Only({
        LET called == [acc EXCEPT !.calls = @ + 1]
        IN  IF decomposedFoundFile = NoneDict THEN called
            ELSE IF decomposedFileName = NoneDict THEN [called EXCEPT !.raised = TRUE]
            ELSE IF ~sameBlocksLatest(decomposedFoundFile, decomposedFileName) THEN called
            ELSE IF skipsUnversioned(decomposedFoundFile) THEN called
            ELSE IF isHigher(decomposedFoundFile.version, acc.highestVersion)
                 THEN [called EXCEPT !.highestVersion = decomposedFoundFile.version,
                                     !.prevVersionFilePath = acc.versionFilePath,
                                     !.versionFilePath = versionsFolder \o <<foundFile>>]
                 ELSE called
        : decomposedFoundFile \in {decomposeRamsesFileName(alts, foundFile)}})

\* getLatestVersionFilePath: the loop variables after the first i files of foundFiles
RECURSIVE LatestLoop(_, _, _, _, _, _)
LatestLoop(fsys, alts, versionsFolder, decomposedFileName, foundFiles, i) ==
    IF i = 0
    THEN [highestVersion |-> 0, versionFilePath |-> <<>>, prevVersionFilePath |-> <<>>,
          raised |-> FALSE, calls |-> 0]
    ELSE Only({LatestStep(fsys, alts, versionsFolder, decomposedFileName, acc, foundFiles[i])
               : acc \in {LatestLoop(fsys, alts, versionsFolder, decomposedFileName,
                                     foundFiles, i - 1)}})

\* getLatestVersionFilePath: what it returns once the loop is over
LatestResult(prefixes, previous, vf, loop) ==
    [path     |-> IF loop.raised THEN <<>>
                  ELSE IF previous THEN loop.prevVersionFilePath
                  ELSE loop.versionFilePath,
     raised   |-> loop.raised,
     fs       |-> vf.fs,
     prefixes |-> afterCalls(prefixes, 1 + loop.calls)]

\* getLatestVersionFilePath, os.listdir returning foundFiles
getLatestVersionFilePath(fsys, prefixes, filePath, previous, foundFiles) ==
    Only({
        Only({LatestResult(prefixes, previous, vf, loop)
              : loop \in {LatestLoop(vf.fs, alts, vf.folder, decomposedFileName,
                                     foundFiles, Len(foundFiles))}})
        : alts \in {getVersionRegExStr(prefixes)},
          decomposedFileName \in
              {decomposeRamsesFileName(getVersionRegExStr(prefixes), basename(filePath))},
          vf \in {getVersionFolder(fsys, filePath)}})

\* getLatestVersion: (version, state, date) for the path r that getLatestVersionFilePath
\* returned; datetime.now() is "now"
LatestVersionOf(r, defaultStateShortName) ==
    LET absent == [version |-> 0, state |-> defaultStateShortName, date |-> "now",
                   raised |-> r.raised, fs |-> r.fs, prefixes |-> r.prefixes]
    IN  IF r.raised \/ r.path = <<>> THEN absent
        ELSE Only({
            IF decomposedVersionFile = NoneDict
            THEN [absent EXCEPT !.prefixes = afterCalls(r.prefixes, 1)]
            ELSE [version  |-> decomposedVersionFile.version,
                  state    |-> decomposedVersionFile.state,
                  date     |-> r.fs[r.path].mtime,
                  raised   |-> FALSE,
                  fs       |-> r.fs,
                  prefixes |-> afterCalls(r.prefixes, 1)]
            : decomposedVersionFile \in
                {decomposeRamsesFileName(getVersionRegExStr(r.prefixes), basename(r.path))}})

\* getLatestVersion
getLatestVersion(fsys, prefixes, filePath, defaultStateShortName, previous, foundFiles) ==
    Only({LatestVersionOf(r, defaultStateShortName)
          : r \in {getLatestVersionFilePath(fsys, prefixes, filePath, previous, foundFiles)}})

\* sameBlocksList without the `continue` on ramStep
sameBlocksListAnyStep(decomposedFoundFile, decomposedFileName) ==
    /\ decomposedFoundFile.projectID = decomposedFileName.projectID
    /\ decomposedFoundFile.ramType = decomposedFileName.ramType
    /\ decomposedFoundFile.objectShortName = decomposedFileName.objectShortName
    /\ decomposedFoundFile.resourceStr = decomposedFileName.resourceStr

\* getVersionFilePaths: none of the five `continue` on the blocks of the name is taken
sameBlocksList(decomposedFoundFile, decomposedFileName) ==
    /\ decomposedFoundFile.projectID = decomposedFileName.projectID
    /\ decomposedFoundFile.ramType = decomposedFileName.ramType
    /\ decomposedFoundFile.objectShortName = decomposedFileName.objectShortName
    /\ decomposedFoundFile.ramStep = decomposedFileName.ramStep
    /\ decomposedFoundFile.resourceStr = decomposedFileName.resourceStr

\* getVersionFilePaths: the entry is skipped before its name is looked at
skipsEntryList(fsys, foundFilePath) == ~isfile(fsys, foundFilePath)

\* getVersionFilePaths: one turn of the loop over foundFiles
ListStep(fsys, alts, versionsFolder, decomposedFileName, acc, foundFile) ==
    IF acc.raised \/ skipsEntryList(fsys, versionsFolder \o <<foundFile>>) THEN acc
    ELSE Only({
        LET called == [acc EXCEPT !.calls = @ + 1]
        IN  IF decomposedFoundFile = NoneDict THEN called
            ELSE IF decomposedFileName = NoneDict THEN [called EXCEPT !.raised = TRUE]
            ELSE IF ~sameBlocksList(decomposedFoundFile, decomposedFileName) THEN called
            ELSE [called EXCEPT !.versionFiles = Append(@, versionsFolder \o <<foundFile>>)]
        : decomposedFoundFile \in {decomposeRamsesFileName(alts, foundFile)}})

\* getVersionFilePaths: the loop variables after the first i files of foundFiles
RECURSIVE ListLoop(_, _, _, _, _, _)
ListLoop(fsys, alts, versionsFolder, decomposedFileName, foundFiles, i) ==
    IF i = 0
    THEN [versionFiles |-> <<>>, raised |-> FALSE, calls |-> 0]
    ELSE Only({ListStep(fsys, alts, versionsFolder, decomposedFileName, acc, foundFiles[i])
               : acc \in {ListLoop(fsys, alts, versionsFolder, decomposedFileName,
                                   foundFiles, i - 1)}})

\* versionFilesSorter giving every path the same key
sameKeySorter(alts, f) == 0

\* _versionFilesSorter: the key of a path in the sort
versionFilesSorter(alts, f) == decomposeRamsesFileName(alts, basename(f)).version

\* the keys of the files, each computed once
RECURSIVE sortKeys(_, _, _)
sortKeys(alts, files, i) ==
    IF i = 0 THEN <<>>
    ELSE Append(sortKeys(alts, files, i - 1), versionFilesSorter(alts, files[i]))

\* the place of the i-th file in the sorted list: ascending keys, files of equal keys
\* in the order they had
placeInSort(keys, i) ==
    Cardinality({j \in DOMAIN keys : keys[j] < keys[i] \/ (keys[j] = keys[i] /\ j <= i)})

\* list.sort(key = _versionFilesSorter): ascending and stable
sortByVersion(alts, files) ==
    Only({[p \in DOMAIN files |-> files[CHOOSE i \in DOMAIN files : placeInSort(keys, i) = p]]
          : keys \in {sortKeys(alts, files, Len(files))}})

\* getVersionFilePaths: what it returns once the loop is over
ListResult(prefixes, alts, vf, loop) ==
    [list     |-> IF loop.raised THEN <<>> ELSE sortByVersion(alts, loop.versionFiles),
     raised   |-> loop.raised,
     fs       |-> vf.fs,
     prefixes |-> afterCalls(prefixes,
                     1 + loop.calls + (IF loop.raised THEN 0 ELSE Len(loop.versionFiles)))]

\* getVersionFilePaths, os.listdir returning foundFiles
getVersionFilePaths(fsys, prefixes, filePath, foundFiles) ==
    Only({
        Only({ListResult(prefixes, alts, vf, loop)
              : loop \in {ListLoop(vf.fs, alts, vf.folder, decomposedFileName,
                                   foundFiles, Len(foundFiles))}})
        : alts \in {getVersionRegExStr(prefixes)},
          decomposedFileName \in
              {decomposeRamsesFileName(getVersionRegExStr(prefixes), basename(filePath))},
          vf \in {getVersionFolder(fsys, filePath)}})

\* the path a call returns when it returns None
NonePath == <<None>>

\* versionToWrite without the increment
versionNotIncremented(latest, increment) == IF latest <= 0 THEN 1 ELSE latest

\* versionToWrite without the floor at 1
versionNotFloored(latest, increment) == IF increment THEN latest + 1 ELSE latest

\* copyToVersion: the number of the version written
versionToWrite(latest, increment) ==
    LET versionNumber == IF increment THEN latest + 1 ELSE latest
    IN  IF versionNumber <= 0 THEN 1 ELSE versionNumber

\* copyToVersion: the state of the version written
stateToWrite(latestState, stateShortName) ==
    IF stateShortName = <<>> THEN latestState ELSE stateShortName

\* copyToVersion: the copy of filePath under newFileName, the latest version known.
\* It raises when buildRamsesFileName raises and when shutil.copy2 is given the same
\* path twice (SameFileError).
copyAs(filePath, newFileName, version, vf) ==
    IF newFileName = Raised \/ vf.folder \o <<newFileName>> = filePath
    THEN [path |-> <<>>, raised |-> TRUE, fs |-> vf.fs, prefixes |-> version.prefixes]
    ELSE [path |-> vf.folder \o <<newFileName>>, raised |-> FALSE,
          fs |-> copy2(vf.fs, filePath, vf.folder \o <<newFileName>>),
          prefixes |-> version.prefixes]

\* copyToVersion, once the name of the file is decomposed
copyDecomposed(fsys, prefixes, filePath, increment, stateShortName, foundFiles, decomposedFileName) ==
    Only({
        Only({copyAs(filePath, newFileName, version, vf)
              : newFileName \in
                  {buildRamsesFileName(decomposedFileName.projectID,
                                       decomposedFileName.ramStep,
                                       decomposedFileName.extension,
                                       decomposedFileName.ramType,
                                       decomposedFileName.objectShortName,
                                       decomposedFileName.resourceStr,
                                       versionToWrite(version.version, increment),
                                       stateToWrite(version.state, stateShortName))},
                vf \in {getVersionFolder(version.fs, filePath)}})
        : version \in {getLatestVersion(fsys, afterCalls(prefixes, 1), filePath,
                                        stateShortName, FALSE, foundFiles)}})

\* copyToVersion, os.listdir returning foundFiles.  It raises when the file is missing.
copyToVersion(fsys, prefixes, filePath, increment, stateShortName, foundFiles) ==
    IF ~isfile(fsys, filePath)
    THEN [path |-> <<>>, raised |-> TRUE, fs |-> fsys, prefixes |-> prefixes]
    ELSE Only({
        IF decomposedFileName = NoneDict
        THEN [path |-> NonePath, raised |-> FALSE, fs |-> fsys,
              prefixes |-> afterCalls(prefixes, 1)]
        ELSE copyDecomposed(fsys, prefixes, filePath, increment, stateShortName, foundFiles,
                            decomposedFileName)
        : decomposedFileName \in
            {decomposeRamsesFileName(getVersionRegExStr(prefixes), basename(filePath))}})


\* copyToVersion up to newFilePath, once the name of the file is decomposed: the latest
\* version read, the path to write, and the disk with its versions folder
pathDecomposed(fsys, prefixes, filePath, increment, stateShortName, foundFiles, decomposedFileName) ==
    Only({
        Only({[ended    |-> newFileName = Raised,
               raised   |-> newFileName = Raised,
               path     |-> IF newFileName = Raised THEN <<>>
                            ELSE vf.folder \o <<newFileName>>,
               latest   |-> version.version,
               fs       |-> vf.fs,
               prefixes |-> version.prefixes]
              : newFileName \in
                  {buildRamsesFileName(decomposedFileName.projectID,
                                       decomposedFileName.ramStep,
                                       decomposedFileName.extension,
                                       decomposedFileName.ramType,
                                       decomposedFileName.objectShortName,
                                       decomposedFileName.resourceStr,
                                       versionToWrite(version.version, increment),
                                       stateToWrite(version.state, stateShortName))},
                vf \in {getVersionFolder(version.fs, filePath)}})
        : version \in {getLatestVersion(fsys, afterCalls(prefixes, 1), filePath,
                                        stateShortName, FALSE, foundFiles)}})

\* copyToVersion up to newFilePath, os.listdir returning foundFiles; the call has ended
\* when the file is missing (it raises) and when its name is malformed (it returns None)
pathToWrite(fsys, prefixes, filePath, increment, stateShortName, foundFiles) ==
    IF ~isfile(fsys, filePath)
    THEN [ended |-> TRUE, raised |-> TRUE, path |-> <<>>, latest |-> 0,
          fs |-> fsys, prefixes |-> prefixes]
    ELSE Only({
        IF decomposedFileName = NoneDict
        THEN [ended |-> TRUE, raised |-> FALSE, path |-> NonePath, latest |-> 0,
              fs |-> fsys, prefixes |-> afterCalls(prefixes, 1)]
        ELSE pathDecomposed(fsys, prefixes, filePath, increment, stateShortName, foundFiles,
                            decomposedFileName)
        : decomposedFileName \in
            {decomposeRamsesFileName(getVersionRegExStr(prefixes), basename(filePath))}})

-----------------------------------------------------------------------------
(* RamFileManager: the save path, restoring and publishing *)

RestoredTagHead == <<"+", "r", "e", "s", "t", "o", "r", "e", "d", "-", "v">>

\* the number of digits of s from position i on
RECURSIVE digitsFrom(_, _)
digitsFrom(s, i) ==
    IF i <= Len(s) /\ s[i] \in DigitSet THEN 1 + digitsFrom(s, i + 1) ELSE 0

\* the length of the match of \+restored-v\d+\+ at position i of s, 0 when there is none
restoredTagAt(s, i) ==
    IF i + Len(RestoredTagHead) - 1 <= Len(s)
       /\ SubSeq(s, i, i + Len(RestoredTagHead) - 1) = RestoredTagHead
    THEN Only({IF n > 0 /\ i + Len(RestoredTagHead) + n <= Len(s)
                        /\ s[i + Len(RestoredTagHead) + n] = "+"
               THEN Len(RestoredTagHead) + n + 1
               ELSE 0
               : n \in {digitsFrom(s, i + Len(RestoredTagHead))}})
    ELSE 0

\* re.sub( '\+restored-v\d+\+', "", s ), from position i of s on
RECURSIVE withoutRestoredFrom(_, _)
withoutRestoredFrom(s, i) ==
    IF i > Len(s) THEN <<>>
    ELSE Only({IF n > 0
               THEN Only({withoutRestoredFrom(s, j) : j \in {i + n}})
               ELSE Only({<<s[i]>> \o withoutRestoredFrom(s, j) : j \in {i + 1}})
               : n \in {restoredTagAt(s, i)}})

withoutRestored(s) == withoutRestoredFrom(s, 1)

\* getSaveFilePath: the folder of the save path
saveFolderOf(filePath) ==
    IF inReservedFolder(filePath) THEN dirname(dirname(filePath)) ELSE dirname(filePath)

\* getSaveFilePath; a malformed name gives ""
getSaveFilePath(prefixes, filePath) ==
    Only({
        IF decomposedFileName = NoneDict
        THEN [path |-> <<>>, raised |-> FALSE, prefixes |-> afterCalls(prefixes, 1)]
        ELSE Only({
            IF saveFileName = Raised
            THEN [path |-> <<>>, raised |-> TRUE, prefixes |-> afterCalls(prefixes, 1)]
            ELSE [path |-> saveFolderOf(filePath) \o <<saveFileName>>, raised |-> FALSE,
                  prefixes |-> afterCalls(prefixes, 1)]
            : saveFileName \in
                {buildRamsesFileName(decomposedFileName.projectID,
                                     decomposedFileName.ramStep,
                                     decomposedFileName.extension,
                                     decomposedFileName.ramType,
                                     decomposedFileName.objectShortName,
                                     withoutRestored(decomposedFileName.resourceStr),
                                     -1, <<"v">>)}})
        : decomposedFileName \in
            {decomposeRamsesFileName(getVersionRegExStr(prefixes), basename(filePath))}})

\* copyFile as an exclusive creation: it raises when there is an entry at dst
copyFileExclusive(fsys, src, dst) ==
    IF ~isfile(fsys, src) \/ dst \in DOMAIN fsys
    THEN [raised |-> TRUE, fs |-> fsys]
    ELSE [raised |-> FALSE, fs |-> copy2(fsys, src, dst)]

\* shutil.copy2 as the methods call it: it raises when src is no regular file
\* (FileNotFoundError, IsADirectoryError) and when dst is src (SameFileError)
copyFile(fsys, src, dst) ==
    IF ~isfile(fsys, src) \/ dst = src
    THEN [raised |-> TRUE, fs |-> fsys]
    ELSE [raised |-> FALSE, fs |-> copy2(fsys, src, dst)]

\* notInVersions refusing no path
neverRefused(filePath) == FALSE

\* restoreVersionFile: the path is refused for not being in a versions folder
notInVersions(filePath) == ~inVersionsFolder(filePath)

\* restoredResource without the tag: the resource of the save path
restoredResourceUntagged(decomposedVersionFile) ==
    withoutRestored(decomposedVersionFile.resourceStr)

\* restoreVersionFile: the resource of the restored file
restoredResource(decomposedVersionFile) ==
    decomposedVersionFile.resourceStr \o RestoredTagHead
        \o str(decomposedVersionFile.version) \o <<"+">>

\* restoreVersionFile: the copy of filePath as restoredFileName in the folder above
restoreAs(fsys, prefixes, filePath, restoredFileName) ==
    IF restoredFileName = Raised
    THEN [path |-> <<>>, raised |-> TRUE, fs |-> fsys, prefixes |-> prefixes]
    ELSE Only({
        [path     |-> IF copied.raised THEN <<>>
                      ELSE dirname(dirname(filePath)) \o <<restoredFileName>>,
         raised   |-> copied.raised,
         fs       |-> copied.fs,
         prefixes |-> prefixes]
        : copied \in
            {copyFile(fsys, filePath, dirname(dirname(filePath)) \o <<restoredFileName>>)}})

\* restoreVersionFile; it returns None for a path outside a versions folder and for a
\* malformed name
restoreVersionFile(fsys, prefixes, filePath) ==
    IF notInVersions(filePath)
    THEN [path |-> NonePath, raised |-> FALSE, fs |-> fsys, prefixes |-> prefixes]
    ELSE Only({
        IF decomposedVersionFile = NoneDict
        THEN [path |-> NonePath, raised |-> FALSE, fs |-> fsys,
              prefixes |-> afterCalls(prefixes, 1)]
        ELSE restoreAs(fsys, afterCalls(prefixes, 1), filePath,
                       buildRamsesFileName(decomposedVersionFile.projectID,
                                           decomposedVersionFile.ramStep,
                                           decomposedVersionFile.extension,
                                           decomposedVersionFile.ramType,
                                           decomposedVersionFile.objectShortName,
                                           restoredResource(decomposedVersionFile),
                                           -1, <<"v">>))
        : decomposedVersionFile \in
            {decomposeRamsesFileName(getVersionRegExStr(prefixes), basename(filePath))}})

\* buildPath for a folder and a name
buildPath(folder, name) == folder \o <<name>>

\* publishMissing finding every file
publishNeverMissing(fsys, filePath) == FALSE

\* copyToPublish: the file to publish is missing
publishMissing(fsys, filePath) == ~isfile(fsys, filePath)

\* copyToPublish: the copy of filePath as newFileName in the publish folder
publishAs(fsys, prefixes, filePath, newFileName) ==
    IF newFileName = Raised
    THEN [path |-> <<>>, raised |-> TRUE, fs |-> fsys, prefixes |-> prefixes]
    ELSE Only({
        Only({
            [path     |-> IF copied.raised THEN <<>> ELSE buildPath(pf.folder, newFileName),
             raised   |-> copied.raised,
             fs       |-> copied.fs,
             prefixes |-> prefixes]
            : copied \in {copyFile(pf.fs, filePath, buildPath(pf.folder, newFileName))}})
        : pf \in {getPublishFolder(fsys, filePath)}})

\* copyToPublish; it raises when the file is missing and returns None for a malformed name
copyToPublish(fsys, prefixes, filePath) ==
    IF publishMissing(fsys, filePath)
    THEN [path |-> <<>>, raised |-> TRUE, fs |-> fsys, prefixes |-> prefixes]
    ELSE Only({
        IF decomposedFileName = NoneDict
        THEN [path |-> NonePath, raised |-> FALSE, fs |-> fsys,
              prefixes |-> afterCalls(prefixes, 1)]
        ELSE publishAs(fsys, afterCalls(prefixes, 1), filePath,
                       buildRamsesFileName(decomposedFileName.projectID,
                                           decomposedFileName.ramStep,
                                           decomposedFileName.extension,
                                           decomposedFileName.ramType,
                                           decomposedFileName.objectShortName,
                                           decomposedFileName.resourceStr,
                                           -1, <<"v">>))
        : decomposedFileName \in
            {decomposeRamsesFileName(getVersionRegExStr(prefixes), basename(filePath))}})

-----------------------------------------------------------------------------
(* The disk the calls start from *)

\* the most entries the versions folder holds at first
MaxFiles == 3

FPE == <<"F", "P", "E">>
TRI == <<"T", "R", "I">>
MOD == <<"M", "O", "D">>
RIG == <<"R", "I", "G">>
blend == <<"b", "l", "e", "n", "d">>
wip == <<"w", "i", "p">>

\* FPE_A_TRI_<step>[_<resource>][_<versionBlock>].blend
ItemFileName(step, resource, versionBlock) ==
    NameOf(FPE, ASSET, TRI, step, resource, versionBlock, blend)

NotesFileName == <<"n", "o", "t", "e", "s", ".", "t", "x", "t">>

WorkFolder == <<wip>>
VersionsFolder == WorkFolder \o <<VersionsFolderName>>

WorkFile == WorkFolder \o <<ItemFileName(MOD, Absent, Absent)>>
VersionFile == VersionsFolder \o <<ItemFileName(MOD, Absent, <<"v", "0", "0", "2">>)>>
NotesFile == WorkFolder \o <<NotesFileName>>

\* the paths the calls are given
FilePaths == {WorkFile, VersionFile, NotesFile}

\* the states the calls are given
StateArgs == {<<"v">>, wip}

\* what a user session may have left in the versions folder; content and modification
\* time of an entry are its index
VersionsEntries ==
    << [name |-> ItemFileName(MOD, Absent, <<"v", "0", "0", "2">>), kind |-> "file"],
       [name |-> ItemFileName(MOD, Absent, <<"w", "i", "p", "0", "0", "2">>), kind |-> "file"],
       [name |-> ItemFileName(MOD, Absent, <<"v", "0", "0", "3">>), kind |-> "file"],
       [name |-> ItemFileName(MOD, Absent, <<"v", "9">>), kind |-> "file"],
       [name |-> ItemFileName(MOD, Absent, <<"v", "0", "1", "0">>), kind |-> "file"],
       [name |-> ItemFileName(MOD, Absent, Absent), kind |-> "file"],
       [name |-> ItemFileName(RIG, Absent, <<"v", "0", "1", "2">>), kind |-> "file"],
       [name |-> NotesFileName, kind |-> "file"],
       [name |-> ItemFileName(MOD, Absent, <<"v", "0", "1", "1">>), kind |-> "dir"] >>

\* the disk with the working files and the chosen entries of the versions folder
DiskWith(chosen) ==
    LET work == (WorkFolder :> Directory)
                @@ (WorkFile :> [kind |-> "file", content |-> 20, mtime |-> 20])
                @@ (NotesFile :> [kind |-> "file", content |-> 21, mtime |-> 21])
        versions == [q \in {VersionsFolder \o <<VersionsEntries[i].name>> : i \in chosen} |->
                        LET i == CHOOSE k \in chosen : VersionsEntries[k].name = basename(q)
                        IN  IF VersionsEntries[i].kind = "dir" THEN Directory
                            ELSE [kind |-> "file", content |-> i, mtime |-> i]]
    IN  IF chosen = {} THEN work
        ELSE versions @@ (VersionsFolder :> Directory) @@ work

Disks == {DiskWith(chosen) :
            chosen \in {c \in SUBSET DOMAIN VersionsEntries : Cardinality(c) <= MaxFiles}}

-----------------------------------------------------------------------------
(* The calls *)

NoCall ==
    [op |-> "none", filePath |-> <<>>, previous |-> FALSE, increment |-> FALSE,
     state |-> <<>>, raised |-> FALSE, path |-> <<>>, version |-> 0, stateOut |-> <<>>,
     date |-> 0, list |-> <<>>, before |-> <<>>, listing |-> <<>>, calls |-> 0,
     resource |-> <<>>, step |-> <<>>]

CodecIdle == [pc |-> "idle", x |-> <<>>, d |-> NoneDict, increment |-> FALSE,
              name |-> <<>>, d2 |-> NoneDict]

\* the callers that run side by side
Threads == {"first", "second"}

\* a caller that has not called yet
Idle ==
    [pc |-> "idle", op |-> "none", filePath |-> <<>>, increment |-> FALSE,
     folder |-> <<>>, version |-> 0, newFilePath |-> <<>>, path |-> <<>>, raised |-> FALSE]

NoThreads == [t \in Threads |-> Idle]

Init ==
    /\ fs \in Disks
    /\ versionPrefixes = InitialVersionPrefixes
    /\ last = NoCall
    /\ codec = CodecIdle
    /\ threads = NoThreads

\* a behaviour is one call on a disk: no call was made yet
NoCallYet == last.op = "none"

\* what os.listdir may return for the versions folder of filePath
Listings(filePath) == Orderings(listdir(fs, versionFolderOf(filePath)))

GetLatestVersionFilePath ==
    /\ NoCallYet
    /\ \E filePath \in FilePaths, previous \in BOOLEAN :
        \E foundFiles \in Listings(filePath) :
            \E r \in {getLatestVersionFilePath(fs, versionPrefixes, filePath, previous,
                                                foundFiles)} :
                /\ fs' = r.fs
                /\ versionPrefixes' = r.prefixes
                /\ last' = [NoCall EXCEPT !.op = "getLatestVersionFilePath",
                                          !.filePath = filePath, !.previous = previous,
                                          !.raised = r.raised, !.path = r.path, !.before = fs, !.listing = foundFiles]
    /\ UNCHANGED <<codec, threads>>

GetLatestVersion ==
    /\ NoCallYet
    /\ \E filePath \in FilePaths, defaultStateShortName \in StateArgs, previous \in BOOLEAN :
        \E foundFiles \in Listings(filePath) :
            \E r \in {getLatestVersion(fs, versionPrefixes, filePath, defaultStateShortName,
                                        previous, foundFiles)} :
                /\ fs' = r.fs
                /\ versionPrefixes' = r.prefixes
                /\ last' = [NoCall EXCEPT !.op = "getLatestVersion",
                                          !.filePath = filePath, !.previous = previous,
                                          !.state = defaultStateShortName,
                                          !.raised = r.raised, !.version = r.version,
                                          !.stateOut = r.state, !.date = r.date, !.before = fs, !.listing = foundFiles]
    /\ UNCHANGED <<codec, threads>>

GetVersionFilePaths ==
    /\ NoCallYet
    /\ \E filePath \in FilePaths :
        \E foundFiles \in Listings(filePath) :
            \E r \in {getVersionFilePaths(fs, versionPrefixes, filePath, foundFiles)} :
                /\ fs' = r.fs
                /\ versionPrefixes' = r.prefixes
                /\ last' = [NoCall EXCEPT !.op = "getVersionFilePaths",
                                          !.filePath = filePath,
                                          !.raised = r.raised, !.list = r.list, !.before = fs, !.listing = foundFiles]
    /\ UNCHANGED <<codec, threads>>

CopyToVersion ==
    /\ NoCallYet
    /\ \E filePath \in FilePaths, increment \in BOOLEAN, stateShortName \in {<<>>, wip} :
        \E foundFiles \in Listings(filePath) :
            \E r \in {copyToVersion(fs, versionPrefixes, filePath, increment,
                                     stateShortName, foundFiles)} :
                /\ fs' = r.fs
                /\ versionPrefixes' = r.prefixes
                /\ last' = [NoCall EXCEPT !.op = "copyToVersion",
                                          !.filePath = filePath, !.increment = increment,
                                          !.state = stateShortName,
                                          !.raised = r.raised, !.path = r.path, !.before = fs, !.listing = foundFiles]
    /\ UNCHANGED <<codec, threads>>

Next ==
    \/ GetLatestVersionFilePath
    \/ GetLatestVersion
    \/ GetVersionFilePaths
    \/ CopyToVersion

Spec == Init /\ [][Next]_vars

-----------------------------------------------------------------------------
(* The codec on its own: decompose, compose, decompose again *)

InitCodec ==
    /\ fs = DiskWith({})
    /\ versionPrefixes = InitialVersionPrefixes
    /\ last = NoCall
    /\ \E x \in CodecNames : codec = [CodecIdle EXCEPT !.pc = "start", !.x = x]
    /\ threads = NoThreads

Decompose ==
    /\ codec.pc = "start"
    /\ codec' = [codec EXCEPT !.pc = "decomposed",
                    !.d = decomposeRamsesFileName(getVersionRegExStr(versionPrefixes), codec.x)]
    /\ versionPrefixes' = getVersionRegExStr(versionPrefixes)
    /\ UNCHANGED <<fs, last, threads>>

Compose ==
    /\ codec.pc = "decomposed"
    /\ codec.d # NoneDict
    /\ \E increment \in BOOLEAN :
        codec' = [codec EXCEPT !.pc = "composed", !.increment = increment,
                               !.name = composeRamsesFileName(codec.d, increment)]
    /\ UNCHANGED <<fs, versionPrefixes, last, threads>>

DecomposeAgain ==
    /\ codec.pc = "composed"
    /\ codec.name # Raised
    /\ codec' = [codec EXCEPT !.pc = "done",
                    !.d2 = decomposeRamsesFileName(getVersionRegExStr(versionPrefixes), codec.name)]
    /\ versionPrefixes' = getVersionRegExStr(versionPrefixes)
    /\ UNCHANGED <<fs, last, threads>>

NextCodec == Decompose \/ Compose \/ DecomposeAgain

SpecCodec == InitCodec /\ [][NextCodec]_vars

-----------------------------------------------------------------------------
(* One call on the folders and files of one owner *)

\* the most entries the owner's folders hold at first
MaxEntries == 2

PreviewFolder == WorkFolder \o <<PreviewFolderName>>
PublishFolder == WorkFolder \o <<PublishFolderName>>

res == <<"r", "e", "s">>
RestoredV3 == RestoredTagHead \o <<"3", "+">>
RestoredV12 == RestoredTagHead \o <<"1", "2", "+">>

PlainName == ItemFileName(MOD, Absent, Absent)
V003Name == ItemFileName(MOD, Absent, <<"v", "0", "0", "3">>)
ResourceName == ItemFileName(MOD, res, <<"w", "i", "p", "0", "0", "3">>)
RestoredName == ItemFileName(MOD, RestoredV3, Absent)
ResourceRestoredName == ItemFileName(MOD, res \o RestoredV3, Absent)
TwiceRestoredName == ItemFileName(MOD, RestoredV3 \o res \o RestoredV12, <<"v", "0", "0", "4">>)
LowerTypeName == NameOf(FPE, <<"a">>, TRI, MOD, Absent, <<"v", "0", "0", "3">>, blend)
LowerPlainName == NameOf(FPE, <<"a">>, TRI, MOD, Absent, Absent, blend)
FolderLikeName == ItemFileName(MOD, Absent, <<"v", "0", "1", "1">>)

\* the names the calls are given, in each of the owner's four folders
FileNames ==
    {PlainName, V003Name, ResourceName, RestoredName, TwiceRestoredName, LowerTypeName,
     LowerPlainName, FolderLikeName, NotesFileName}

OwnerFolders == {WorkFolder, VersionsFolder, PreviewFolder, PublishFolder}

FileArgs == {folder \o <<name>> : folder \in OwnerFolders, name \in FileNames}

\* what the owner's folders may hold at first
OwnerEntries ==
    << [path |-> VersionsFolder \o <<V003Name>>, kind |-> "file"],
       [path |-> VersionsFolder \o <<ResourceName>>, kind |-> "file"],
       [path |-> VersionsFolder \o <<LowerTypeName>>, kind |-> "file"],
       [path |-> VersionsFolder \o <<PlainName>>, kind |-> "file"],
       [path |-> VersionsFolder \o <<NotesFileName>>, kind |-> "file"],
       [path |-> VersionsFolder \o <<FolderLikeName>>, kind |-> "dir"],
       [path |-> WorkFolder \o <<PlainName>>, kind |-> "file"],
       [path |-> WorkFolder \o <<RestoredName>>, kind |-> "file"],
       [path |-> WorkFolder \o <<ResourceRestoredName>>, kind |-> "dir"],
       [path |-> PublishFolder \o <<PlainName>>, kind |-> "file"],
       [path |-> PublishFolder, kind |-> "dir"],
       [path |-> PreviewFolder \o <<V003Name>>, kind |-> "file"],
       [path |-> WorkFolder \o <<LowerPlainName>>, kind |-> "file"] >>

\* the disk with the owner's folder and the chosen entries
OwnerDiskWith(chosen) ==
    LET paths == {OwnerEntries[i].path : i \in chosen}
        folders == ({WorkFolder} \cup
                        UNION {{SubSeq(p, 1, k) : k \in 1..(Len(p) - 1)} : p \in paths}) \ paths
    IN  [q \in paths \cup folders |->
            IF q \in folders THEN Directory
            ELSE LET i == CHOOSE k \in chosen : OwnerEntries[k].path = q
                 IN  IF OwnerEntries[i].kind = "dir" THEN Directory
                     ELSE [kind |-> "file", content |-> 30 + i, mtime |-> 30 + i]]

OwnerDisks == {OwnerDiskWith(chosen) :
                chosen \in {c \in SUBSET DOMAIN OwnerEntries : Cardinality(c) <= MaxEntries}}

InitFiles ==
    /\ fs \in OwnerDisks
    /\ versionPrefixes = InitialVersionPrefixes
    /\ last = NoCall
    /\ codec = CodecIdle
    /\ threads = NoThreads

GetVersionFolder ==
    /\ NoCallYet
    /\ \E filePath \in FileArgs :
        \E r \in {getVersionFolder(fs, filePath)} :
            /\ fs' = r.fs
            /\ last' = [NoCall EXCEPT !.op = "getVersionFolder", !.filePath = filePath,
                                      !.path = r.folder, !.before = fs]
    /\ UNCHANGED <<versionPrefixes, codec, threads>>

GetPublishFolder ==
    /\ NoCallYet
    /\ \E filePath \in FileArgs :
        \E r \in {getPublishFolder(fs, filePath)} :
            /\ fs' = r.fs
            /\ last' = [NoCall EXCEPT !.op = "getPublishFolder", !.filePath = filePath,
                                      !.path = r.folder, !.before = fs]
    /\ UNCHANGED <<versionPrefixes, codec, threads>>

GetSaveFilePath ==
    /\ NoCallYet
    /\ \E filePath \in FileArgs :
        \E r \in {getSaveFilePath(versionPrefixes, filePath)} :
            /\ versionPrefixes' = r.prefixes
            /\ last' = [NoCall EXCEPT !.op = "getSaveFilePath", !.filePath = filePath,
                                      !.raised = r.raised, !.path = r.path, !.before = fs]
    /\ UNCHANGED <<fs, codec, threads>>

RestoreVersionFile ==
    /\ NoCallYet
    /\ \E filePath \in FileArgs :
        \E r \in {restoreVersionFile(fs, versionPrefixes, filePath)} :
            /\ fs' = r.fs
            /\ versionPrefixes' = r.prefixes
            /\ last' = [NoCall EXCEPT !.op = "restoreVersionFile", !.filePath = filePath,
                                      !.raised = r.raised, !.path = r.path, !.before = fs]
    /\ UNCHANGED <<codec, threads>>

CopyToPublish ==
    /\ NoCallYet
    /\ \E filePath \in FileArgs :
        \E r \in {copyToPublish(fs, versionPrefixes, filePath)} :
            /\ fs' = r.fs
            /\ versionPrefixes' = r.prefixes
            /\ last' = [NoCall EXCEPT !.op = "copyToPublish", !.filePath = filePath,
                                      !.raised = r.raised, !.path = r.path, !.before = fs]
    /\ UNCHANGED <<codec, threads>>

\* copyToVersion of a file of the owner
CopyFileToVersion ==
    /\ NoCallYet
    /\ \E filePath \in FileArgs, increment \in BOOLEAN :
        \E foundFiles \in Listings(filePath) :
            \E r \in {copyToVersion(fs, versionPrefixes, filePath, increment, <<>>,
                                     foundFiles)} :
                /\ fs' = r.fs
                /\ versionPrefixes' = r.prefixes
                /\ last' = [NoCall EXCEPT !.op = "copyToVersion",
                                          !.filePath = filePath, !.increment = increment,
                                          !.raised = r.raised, !.path = r.path,
                                          !.before = fs, !.listing = foundFiles]
    /\ UNCHANGED <<codec, threads>>

NextFiles ==
    \/ GetVersionFolder
    \/ GetPublishFolder
    \/ GetSaveFilePath
    \/ RestoreVersionFile
    \/ CopyToPublish
    \/ CopyFileToVersion

SpecFiles == InitFiles /\ [][NextFiles]_vars

-----------------------------------------------------------------------------
(* Two folder resolvers side by side: getVersionFolder and getPublishFolder, *)
(* one statement at a time                                                  *)

\* the disks that hold folders only
FolderDisks == {d \in OwnerDisks : \A p \in DOMAIN d : d[p].kind = "dir"}

FolderArgs == {folder \o <<PlainName>> : folder \in OwnerFolders}

InitFolders ==
    /\ fs \in FolderDisks
    /\ versionPrefixes = InitialVersionPrefixes
    /\ last = NoCall
    /\ codec = CodecIdle
    /\ threads = NoThreads

\* the call, up to the folder computed
ResolveFolder(t) ==
    /\ threads[t].pc = "idle"
    /\ \E filePath \in FolderArgs, op \in {"getVersionFolder", "getPublishFolder"} :
        threads' = [threads EXCEPT ![t] =
                        [Idle EXCEPT !.pc = "check", !.op = op, !.filePath = filePath,
                                     !.folder = IF op = "getVersionFolder"
                                                THEN versionFolderOf(filePath)
                                                ELSE publishFolderOf(filePath)]]
    /\ UNCHANGED <<fs, versionPrefixes, last, codec>>

\* if not os.path.isdir( folder ), and the return when it is one
CheckFolder(t) ==
    /\ threads[t].pc = "check"
    /\ threads' = [threads EXCEPT ![t] =
                    IF ~isdir(fs, threads[t].folder)
                    THEN [@ EXCEPT !.pc = "create"]
                    ELSE [@ EXCEPT !.pc = "done", !.path = threads[t].folder]]
    /\ UNCHANGED <<fs, versionPrefixes, last, codec>>

\* os.makedirs( folder ), which raises FileExistsError when the folder is there, and the
\* return
CreateFolder(t) ==
    /\ threads[t].pc = "create"
    /\ IF threads[t].folder \in DOMAIN fs
       THEN /\ threads' = [threads EXCEPT ![t] = [@ EXCEPT !.pc = "done", !.raised = TRUE]]
            /\ UNCHANGED fs
       ELSE /\ fs' = makedirs(fs, threads[t].folder)
            /\ threads' = [threads EXCEPT ![t] =
                            [@ EXCEPT !.pc = "done", !.path = threads[t].folder]]
    /\ UNCHANGED <<versionPrefixes, last, codec>>

NextFolders ==
    \/ \E t \in Threads : ResolveFolder(t)
    \/ \E t \in Threads : CheckFolder(t)
    \/ \E t \in Threads : CreateFolder(t)

SpecFolders == InitFolders /\ [][NextFolders]_vars

-----------------------------------------------------------------------------
(* Two copyToVersion side by side: each one reads the latest version, then copies *)

\* the files committed: the working file and its published copy, of one lineage
CommitArgs == {WorkFolder \o <<PlainName>>, PublishFolder \o <<PlainName>>}

\* the disks that hold both of them, and some entries in the versions folder
CommitDisks ==
    {OwnerDiskWith(chosen \cup {i \in DOMAIN OwnerEntries : OwnerEntries[i].path \in CommitArgs})
        : chosen \in {c \in SUBSET {i \in DOMAIN OwnerEntries :
                                        dirname(OwnerEntries[i].path) = VersionsFolder} :
                        Cardinality(c) <= MaxEntries}}

InitCommits ==
    /\ fs \in CommitDisks
    /\ versionPrefixes = InitialVersionPrefixes
    /\ last = NoCall
    /\ codec = CodecIdle
    /\ threads = NoThreads

\* copyToVersion( filePath, increment ) up to newFilePath = versionsFolder + '/' + newFileName
ReadLatest(t) ==
    /\ threads[t].pc = "idle"
    /\ \E filePath \in CommitArgs, increment \in BOOLEAN :
        \E foundFiles \in Listings(filePath) :
            \E r \in {pathToWrite(fs, versionPrefixes, filePath, increment, <<>>, foundFiles)} :
                /\ fs' = r.fs
                /\ versionPrefixes' = r.prefixes
                /\ threads' = [threads EXCEPT ![t] =
                                [Idle EXCEPT !.pc = IF r.ended THEN "done" ELSE "copy",
                                             !.op = "copyToVersion",
                                             !.filePath = filePath,
                                             !.increment = increment,
                                             !.version = r.latest,
                                             !.newFilePath = r.path,
                                             !.path = IF r.ended THEN r.path ELSE <<>>,
                                             !.raised = r.raised]]
    /\ UNCHANGED <<last, codec>>

\* shutil.copy2( filePath, newFilePath ) and the return
CopyVersion(t) ==
    /\ threads[t].pc = "copy"
    /\ \E copied \in {copyFile(fs, threads[t].filePath, threads[t].newFilePath)} :
        /\ fs' = copied.fs
        /\ threads' = [threads EXCEPT ![t] =
                        [@ EXCEPT !.pc = "done", !.raised = copied.raised,
                                  !.path = IF copied.raised THEN <<>>
                                           ELSE threads[t].newFilePath]]
        /\ last' = [NoCall EXCEPT !.op = "copyToVersion",
                                  !.filePath = threads[t].filePath,
                                  !.increment = threads[t].increment,
                                  !.raised = copied.raised,
                                  !.path = threads'[t].path,
                                  !.before = fs]
    /\ UNCHANGED <<versionPrefixes, codec>>

NextCommits ==
    \/ \E t \in Threads : ReadLatest(t)
    \/ \E t \in Threads : CopyVersion(t)

SpecCommits == InitCommits /\ [][NextCommits]_vars

-----------------------------------------------------------------------------
(* What the claims speak of: the versions folder as the last call found it *)

\* the blocks of the names the disks and the calls start with, each decomposed once
KnownNames ==
    {VersionsEntries[i].name : i \in DOMAIN VersionsEntries} \cup {basename(p) : p \in FilePaths}
BlocksOfKnown ==
    [n \in KnownNames |->
        decomposeRamsesFileName(getVersionRegExStr(InitialVersionPrefixes), n)]

\* the blocks of the name of a path
Blocks(path) ==
    IF basename(path) \in KnownNames THEN BlocksOfKnown[basename(path)]
    ELSE decomposeRamsesFileName(getVersionRegExStr(InitialVersionPrefixes), basename(path))

\* the blocks of the file the call was given
Reference == Blocks(last.filePath)

LineageKey(d) == <<d.projectID, d.ramType, d.objectShortName, d.ramStep, d.resourceStr>>

\* the entries of the versions folder of the file, before the call
FolderEntries ==
    {p \in DOMAIN last.before : p # <<>> /\ dirname(p) = versionFolderOf(last.filePath)}

\* its regular files whose names decompose
Decodable == {p \in FolderEntries : last.before[p].kind = "file" /\ Blocks(p) # NoneDict}

\* those of the lineage of the file
Siblings ==
    IF Reference = NoneDict THEN {}
    ELSE {p \in Decodable : LineageKey(Blocks(p)) = LineageKey(Reference)}

\* those of them that have a version block
Versioned == {p \in Siblings : Blocks(p).version # -1}

VersionsOf(P) == {Blocks(p).version : p \in P}
Max(S) == CHOOSE x \in S : \A y \in S : y <= x

\* the highest version of the lineage, 0 when it has none
Highest == IF Versioned = {} THEN 0 ELSE Max(VersionsOf(Versioned))

\* where shutil.copy2 leaves the copy that the last call returned the path of: in the
\* directory of that name when there was one
Written ==
    IF isdir(last.before, last.path) THEN last.path \o <<basename(last.filePath)>>
    ELSE last.path

-----------------------------------------------------------------------------
(* The claims *)

\* C1: for every name x that decomposeRamsesFileName accepts, decomposing the name that
\* composeRamsesFileName returns for the blocks of x gives the blocks of x again, field
\* for field.
C1_RoundTrip ==
    (codec.pc = "done" /\ ~codec.increment) => codec.d2 = codec.d

\* C2: getVersionFilePaths returns exactly the decodable regular files of the versions
\* folder whose (projectID, ramType, objectShortName, ramStep, resourceStr) equals that of
\* the file given, whatever their state and version; getLatestVersionFilePath returns
\* such a file, and returns one whenever one of them has a version above 0.
C2_LineageMembership ==
    /\ (last.op = "getVersionFilePaths" /\ ~last.raised) =>
            {last.list[i] : i \in DOMAIN last.list} = Siblings
    /\ (last.op = "getLatestVersionFilePath" /\ ~last.raised) =>
            /\ last.path # <<>> => last.path \in Siblings
            /\ ~last.previous =>
                    (last.path = <<>> <=> \A p \in Siblings : Blocks(p).version <= 0)

\* getVersionFilePaths listed two siblings of different states and versions, and left out
\* a decodable file that differs from the file given in its step only
C2_Witness ==
    /\ last.op = "getVersionFilePaths"
    /\ ~last.raised
    /\ \E i, j \in DOMAIN last.list :
            /\ Blocks(last.list[i]).state # Blocks(last.list[j]).state
            /\ Blocks(last.list[i]).version # Blocks(last.list[j]).version
    /\ \E p \in Decodable \ Siblings :
            /\ Blocks(p).ramStep # Reference.ramStep
            /\ [Blocks(p) EXCEPT !.ramStep = Reference.ramStep, !.state = <<>>, !.version = -1]
                    = [Reference EXCEPT !.state = <<>>, !.version = -1]

\* C3: a file of the versions folder whose name has no version block (decoded version -1)
\* is returned neither by getLatestVersionFilePath, latest or previous, nor by
\* getVersionFilePaths.
C3_UnversionedExcluded ==
    /\ (last.op = "getLatestVersionFilePath" /\ last.path # <<>>) =>
            Blocks(last.path).version # -1
    /\ last.op = "getVersionFilePaths" =>
            \A i \in DOMAIN last.list : Blocks(last.list[i]).version # -1

\* C4: getLatestVersionFilePath with previous=True returns the sibling of second-highest
\* version, whatever the order of the listing, and the empty path only when the lineage
\* has fewer than two versions.
C4_PreviousSecondHighest ==
    (/\ last.op = "getLatestVersionFilePath"
     /\ last.previous
     /\ ~last.raised
     /\ Reference # NoneDict) =>
        IF Cardinality(VersionsOf(Versioned)) < 2 THEN last.path = <<>>
        ELSE /\ last.path \in Versioned
             /\ Blocks(last.path).version =
                    Max(VersionsOf(Versioned) \ {Max(VersionsOf(Versioned))})

\* C5: getLatestVersion given a non-empty state returns the highest version among the
\* siblings of that state, 0 when there is none.
C5_StateFilter ==
    (/\ last.op = "getLatestVersion"
     /\ ~last.previous
     /\ ~last.raised
     /\ Reference # NoneDict
     /\ last.state # <<>>) =>
        last.version =
            IF {p \in Versioned : Blocks(p).state = last.state} = {} THEN 0
            ELSE Max(VersionsOf({p \in Versioned : Blocks(p).state = last.state}))

\* C6: of the siblings that share the highest version, getLatestVersionFilePath returns
\* the one modified last, whatever the order of the listing.
C6_TieByModificationTime ==
    (/\ last.op = "getLatestVersionFilePath"
     /\ ~last.previous
     /\ ~last.raised
     /\ last.path # <<>>) =>
        \A p \in Versioned :
            Blocks(p).version = Blocks(last.path).version =>
                last.before[p].mtime <= last.before[last.path].mtime

\* C7: for a file whose name decomposes, getLatestVersion and getLatestVersionFilePath do
\* not raise and return the highest version among the regular files of the versions
\* folder that are of its lineage, sub-directories and names that do not decompose left
\* aside; they return version 0 and the empty path when there is none, the given state
\* with it.
C7_LatestIsHighest ==
    (/\ last.op \in {"getLatestVersion", "getLatestVersionFilePath"}
     /\ ~last.previous
     /\ Reference # NoneDict) =>
        /\ ~last.raised
        /\ last.op = "getLatestVersion" =>
                /\ last.version = Highest
                /\ Highest = 0 => last.stateOut = last.state
        /\ last.op = "getLatestVersionFilePath" =>
                IF Highest = 0 THEN last.path = <<>>
                ELSE last.path \in Versioned /\ Blocks(last.path).version = Highest

\* getLatestVersionFilePath returned a sibling from a versions folder that also holds a
\* sub-directory and a regular file whose name does not decompose
C7_Witness ==
    /\ last.op = "getLatestVersionFilePath"
    /\ ~last.previous
    /\ last.path \in Versioned
    /\ \E p \in FolderEntries : last.before[p].kind = "dir"
    /\ \E p \in FolderEntries : last.before[p].kind = "file" /\ Blocks(p) = NoneDict

\* C8: the list getVersionFilePaths returns is in ascending order of the decoded version.
C8_ListAscending ==
    (last.op = "getVersionFilePaths" /\ ~last.raised) =>
        \A i, j \in DOMAIN last.list :
            i < j => Blocks(last.list[i]).version <= Blocks(last.list[j]).version

\* getVersionFilePaths listed version 9 before version 10, which the listing gave in the
\* other order, as the order of the names has them
C8_Witness ==
    /\ last.op = "getVersionFilePaths"
    /\ last.listing = <<ItemFileName(MOD, Absent, <<"v", "0", "1", "0">>),
                        ItemFileName(MOD, Absent, <<"v", "9">>)>>
    /\ last.list = <<VersionsFolder \o <<ItemFileName(MOD, Absent, <<"v", "9">>)>>,
                     VersionsFolder \o <<ItemFileName(MOD, Absent, <<"v", "0", "1", "0">>)>> >>

\* C9: copyToVersion with increment=True of an existing file whose lineage has the
\* highest version n > 0 does not raise and writes a copy of the file as version n + 1;
\* its state is the state given, or without one the state of a sibling of version n.
C9_IncrementWritesNext ==
    (/\ last.op = "copyToVersion"
     /\ last.increment
     /\ isfile(last.before, last.filePath)
     /\ Reference # NoneDict
     /\ Highest > 0) =>
        /\ ~last.raised
        /\ dirname(last.path) = versionFolderOf(last.filePath)
        /\ isfile(fs, Written)
        /\ fs[Written].content = last.before[last.filePath].content
        /\ Blocks(last.path).version = Highest + 1
        /\ Blocks(last.path).state \in
                IF last.state # <<>> THEN {last.state}
                ELSE {Blocks(p).state : p \in {q \in Versioned : Blocks(q).version = Highest}}

\* copyToVersion with increment=True and no state given wrote v010 next to v9
C9_Witness ==
    /\ last.op = "copyToVersion"
    /\ last.increment
    /\ last.state = <<>>
    /\ last.filePath = WorkFile
    /\ Highest = 9
    /\ last.path = VersionsFolder \o <<ItemFileName(MOD, Absent, <<"v", "0", "1", "0">>)>>
    /\ isfile(fs, last.path)

\* C10: copyToVersion of an existing file whose lineage has no version writes version 1,
\* with increment=True and with increment=False; no version it writes is below 1.
C10_FirstVersionIsOne ==
    (/\ last.op = "copyToVersion"
     /\ isfile(last.before, last.filePath)
     /\ Reference # NoneDict) =>
        /\ Highest = 0 =>
                /\ ~last.raised
                /\ isfile(fs, Written)
                /\ Blocks(last.path).version = 1
        /\ ~last.raised => Blocks(last.path).version >= 1

\* copyToVersion with increment=False wrote version 1 into a versions folder that held
\* no version of the lineage
C10_Witness ==
    /\ last.op = "copyToVersion"
    /\ ~last.increment
    /\ last.filePath = WorkFile
    /\ Versioned = {}
    /\ last.path \notin DOMAIN last.before
    /\ isfile(fs, last.path)
    /\ Blocks(last.path).version = 1

\* C11: after copyToVersion of an existing file, successful or failed, the file is still
\* at its path with the content it had, whether it lies in the working folder or in a
\* reserved folder.
C11_SourceKept ==
    (last.op = "copyToVersion" /\ isfile(last.before, last.filePath)) =>
        /\ isfile(fs, last.filePath)
        /\ fs[last.filePath] = last.before[last.filePath]

\* copyToVersion of a file of the versions folder wrote a new version file beside it
C11_Witness ==
    /\ last.op = "copyToVersion"
    /\ ~last.raised
    /\ last.filePath = VersionFile
    /\ inVersionsFolder(last.filePath)
    /\ last.path \notin DOMAIN last.before
    /\ isfile(fs, last.path)
    /\ fs[last.path].content = last.before[last.filePath].content

\* C20: getLatestVersion, getLatestVersionFilePath and getVersionFilePaths, given a path
\* whose basename is not a Ramses name, do not raise and return version 0, the empty path
\* and the empty list, whatever the versions folder holds.
C20_MalformedGivesAbsence ==
    (/\ last.op \in {"getLatestVersion", "getLatestVersionFilePath", "getVersionFilePaths"}
     /\ Reference = NoneDict) =>
        /\ ~last.raised
        /\ last.op = "getLatestVersion" => last.version = 0
        /\ last.op = "getLatestVersionFilePath" => last.path = <<>>
        /\ last.op = "getVersionFilePaths" => last.list = <<>>

\* the name of the kind of folder the last call resolved
KindResolved ==
    IF last.op = "getVersionFolder" THEN VersionsFolderName ELSE PublishFolderName

\* the name of the folder the file given lies in
OwnFolderName == basename(dirname(last.filePath))

\* C13: getVersionFolder and getPublishFolder of a path p return the folder of p when it
\* is of the kind asked for, the folder of that kind beside the folder of p when the
\* folder of p is of one of the other two reserved kinds, and the folder of that kind
\* below the folder of p otherwise; so the working, versions, preview and publish places
\* of one owner all give the same folder.
C13_FolderResolved ==
    last.op \in {"getVersionFolder", "getPublishFolder"} =>
        /\ OwnFolderName = KindResolved => last.path = dirname(last.filePath)
        /\ (/\ OwnFolderName # KindResolved
            /\ OwnFolderName \in {VersionsFolderName, PreviewFolderName, PublishFolderName}) =>
                last.path = dirname(dirname(last.filePath)) \o <<KindResolved>>
        /\ OwnFolderName \notin {VersionsFolderName, PreviewFolderName, PublishFolderName} =>
                last.path = dirname(last.filePath) \o <<KindResolved>>
        /\ last.path = WorkFolder \o <<KindResolved>>
        /\ isdir(fs, last.path)

\* getVersionFolder of a file of the publish folder gave, and created, the versions
\* folder beside the publish folder
C13_Witness ==
    /\ last.op = "getVersionFolder"
    /\ dirname(last.filePath) = PublishFolder
    /\ last.path = VersionsFolder
    /\ ~isdir(last.before, VersionsFolder)
    /\ isdir(fs, VersionsFolder)

\* the folder above the reserved folder the file given lies in, its own folder when it
\* lies in no reserved folder
CanonicalFolder ==
    IF OwnFolderName \in {VersionsFolderName, PreviewFolderName, PublishFolderName}
    THEN dirname(dirname(last.filePath))
    ELSE dirname(last.filePath)

\* the resource of the file given, without its '+restored-v<N>+' tags
ResourceUntagged ==
    CASE Reference.resourceStr = RestoredV3 -> Absent
      [] Reference.resourceStr = RestoredV3 \o res \o RestoredV12 -> res
      [] OTHER -> Reference.resourceStr

\* C15: getSaveFilePath of a path whose name decomposes returns the canonical folder (the
\* folder above a versions, preview or publish folder, else the folder of the file)
\* followed by the name encoded again with no version block and no '+restored-v<N>+' tag
\* in the resource.
C15_SavePath ==
    (last.op = "getSaveFilePath" /\ Reference # NoneDict) =>
        /\ ~last.raised
        /\ last.path = CanonicalFolder \o
                <<NameOf(Reference.projectID, Reference.ramType, Reference.objectShortName,
                         Reference.ramStep, ResourceUntagged, Absent, Reference.extension)>>

\* C16: restoreVersionFile of an existing file of a versions folder whose name decomposes
\* with version N and resource R copies it into the folder above the versions folder,
\* under the name encoded again with the resource R+restored-vN+ and no version block,
\* and returns the path of the copy.
C16_RestoredName ==
    (/\ last.op = "restoreVersionFile"
     /\ OwnFolderName = VersionsFolderName
     /\ isfile(last.before, last.filePath)
     /\ Reference # NoneDict
     /\ Reference.version # -1) =>
        /\ ~last.raised
        /\ last.path = dirname(dirname(last.filePath)) \o
                <<NameOf(Reference.projectID, Reference.ramType, Reference.objectShortName,
                         Reference.ramStep,
                         Reference.resourceStr \o RestoredTagHead
                            \o str(Reference.version) \o <<"+">>,
                         Absent, Reference.extension)>>
        /\ isfile(fs, Written)
        /\ fs[Written].content = last.before[last.filePath].content

\* the save path of the file given: its canonical folder and its name with no version
\* block and no tag
SavePath ==
    CanonicalFolder \o
        <<NameOf(Reference.projectID, Reference.ramType, Reference.objectShortName,
                 Reference.ramStep, ResourceUntagged, Absent, Reference.extension)>>

\* C17: restoreVersionFile never writes to the save path of the version file it restores:
\* a working file at the save path has the content it had, and the version file itself
\* is unchanged.
C17_WorkingFileKept ==
    (last.op = "restoreVersionFile" /\ Reference # NoneDict) =>
        /\ (~last.raised /\ last.path # NonePath) =>
                /\ last.path # SavePath
                /\ Written # SavePath
        /\ isfile(last.before, SavePath) =>
                /\ isfile(fs, SavePath)
                /\ fs[SavePath] = last.before[SavePath]
        /\ isfile(last.before, last.filePath) =>
                /\ isfile(fs, last.filePath)
                /\ fs[last.filePath] = last.before[last.filePath]

\* restoreVersionFile copied a version file beside the working file, which it left alone
C17_Witness ==
    /\ last.op = "restoreVersionFile"
    /\ ~last.raised
    /\ last.filePath = VersionsFolder \o <<V003Name>>
    /\ SavePath = WorkFolder \o <<PlainName>>
    /\ isfile(last.before, SavePath)
    /\ last.path \notin DOMAIN last.before
    /\ isfile(fs, last.path)
    /\ fs[last.path].content = last.before[last.filePath].content
    /\ fs[last.path].content # fs[SavePath].content

\* C18: restoreVersionFile of a path that is not directly inside a versions folder
\* returns no path and leaves the disk as it was: nothing is copied, no folder is created.
C18_OutsideVersionsRefused ==
    (last.op = "restoreVersionFile" /\ OwnFolderName # VersionsFolderName) =>
        /\ ~last.raised
        /\ last.path = NonePath
        /\ fs = last.before

\* restoreVersionFile refused an existing version-named file of the preview folder
C18_Witness ==
    /\ last.op = "restoreVersionFile"
    /\ last.filePath = PreviewFolder \o <<V003Name>>
    /\ isfile(last.before, last.filePath)
    /\ Reference # NoneDict
    /\ last.path = NonePath
    /\ fs = last.before

\* C19: copyToVersion, copyToPublish and restoreVersionFile of a path at which there is
\* no regular file fail and leave the disk as it was: copyToVersion and copyToPublish
\* raise; restoreVersionFile raises when the path is a decodable name in a versions
\* folder and returns no path otherwise; no folder is created and no file is written.
C19_MissingFileFails ==
    (/\ last.op \in {"copyToVersion", "copyToPublish", "restoreVersionFile"}
     /\ ~isfile(last.before, last.filePath)) =>
        /\ fs = last.before
        /\ last.op \in {"copyToVersion", "copyToPublish"} => last.raised
        /\ last.op = "restoreVersionFile" =>
                IF OwnFolderName = VersionsFolderName /\ Reference # NoneDict
                THEN last.raised
                ELSE ~last.raised /\ last.path = NonePath

\* copyToPublish of a missing file raised and created no publish folder
C19_Witness ==
    /\ last.op = "copyToPublish"
    /\ last.filePath = WorkFolder \o <<PlainName>>
    /\ ~isfile(last.before, last.filePath)
    /\ last.raised
    /\ ~isdir(fs, PublishFolder)
    /\ fs = last.before

\* C14: when getVersionFolder and getPublishFolder run side by side, every one of them
\* returns its folder, which is then on the disk, and none fails because another one
\* created the folder between its os.path.isdir and its os.makedirs.
C14_CreationIdempotent ==
    \A t \in Threads :
        (threads[t].pc = "done"
            /\ threads[t].op \in {"getVersionFolder", "getPublishFolder"}) =>
                /\ ~threads[t].raised
                /\ threads[t].path = threads[t].folder
                /\ isdir(fs, threads[t].folder)

\* the regular files of the versions folder that are of the lineage committed
CommittedVersions ==
    {p \in DOMAIN fs :
        /\ dirname(p) = VersionsFolder
        /\ isfile(fs, p)
        /\ Blocks(p) # NoneDict
        /\ LineageKey(Blocks(p)) = LineageKey(Blocks(WorkFolder \o <<PlainName>>))}

\* both callers have returned from copyToVersion( filePath, increment=True ), and both
\* had read the same latest version
BothReadTheSame ==
    /\ \A t \in Threads :
            threads[t].op = "copyToVersion" /\ threads[t].pc = "done" /\ threads[t].increment
    /\ threads["first"].version = threads["second"].version

\* C12: nothing keeps two copyToVersion( increment=True ) of one lineage from both reading
\* the same latest version n; both then write version n+1 at the same path, the second
\* copy replacing the first: the versions folder ends with one file of version n+1, which
\* holds what the last caller copied, and none of version n+2.
C12_LastWriterWins ==
    BothReadTheSame =>
        /\ \A t \in Threads : ~threads[t].raised /\ threads[t].path = last.path
        /\ Blocks(last.path).version = threads["first"].version + 1
        /\ Cardinality({p \in CommittedVersions :
                            Blocks(p).version = threads["first"].version + 1}) = 1
        /\ {p \in CommittedVersions : Blocks(p).version = threads["first"].version + 2} = {}
        /\ isfile(fs, last.path)
        /\ fs[last.path].content = fs[last.filePath].content

\* the working file and its published copy were committed side by side on a lineage at
\* version 3: both wrote version 4, and the file holds the copy made last
C12_Witness ==
    /\ BothReadTheSame
    /\ threads["first"].version = 3
    /\ threads["first"].filePath # threads["second"].filePath
    /\ threads["first"].path = threads["second"].path
    /\ Blocks(last.path).version = 4
    /\ last.filePath = threads["second"].filePath
    /\ fs[last.path].content = fs[threads["second"].filePath].content
    /\ fs[last.path].content # fs[threads["first"].filePath].content

\* C21: getSaveFilePath of a path whose name does not decompose returns the empty string
\* and changes neither the disk nor the settings.
C21_MalformedSavePath ==
    (last.op = "getSaveFilePath" /\ Reference = NoneDict) =>
        /\ ~last.raised
        /\ last.path = <<>>
        /\ fs = last.before
        /\ versionPrefixes = InitialVersionPrefixes

\* C22: whatever calls of decomposeRamsesFileName were made, the list of version prefixes
\* the settings hold has the length and the elements it had before the first call.
C22_PrefixesKept ==
    versionPrefixes = InitialVersionPrefixes

\* C23: a token of letters, digits, '+', '-' and spaces that is not, as a whole, a
\* version block decodes as the resource, with version -1, also when it begins with a
\* version block ('v2final', '3d', 'ok2go').  No token of ResourceTokens is a version
\* block as a whole.
C23_ResourceAccepted ==
    \A r \in ResourceTokens :
        (codec.pc # "start" /\ codec.x = NameOf(FPE, ASSET, TRI, MOD, r, Absent, blend)) =>
            /\ codec.d # NoneDict
            /\ codec.d.resourceStr = r
            /\ codec.d.version = -1

\* ---- _fixResourceStr on its own: the sanitiser applied once, then to its own result ----

\* the longest resource string given
MaxResourceLen == 2

\* the characters of the strings given: every key of the remap table, both of its
\* replacements, and characters the table does not hold
SanitizeChars == DOMAIN forbiddenCharacters \cup {" ", "-", "a", "1", "+"}

ResourceStrings == UNION {[1..n -> SanitizeChars] : n \in 0..MaxResourceLen}

InitSanitize ==
    /\ fs = DiskWith({})
    /\ versionPrefixes = InitialVersionPrefixes
    /\ last = NoCall
    /\ threads = NoThreads
    /\ codec \in {[pc |-> "start", x |-> s, once |-> <<>>, twice |-> <<>>] : s \in ResourceStrings}

Sanitize ==
    /\ codec.pc = "start"
    /\ codec' = [codec EXCEPT !.pc = "once", !.once = fixResourceStr(codec.x)]
    /\ UNCHANGED <<fs, versionPrefixes, last, threads>>

SanitizeAgain ==
    /\ codec.pc = "once"
    /\ codec' = [codec EXCEPT !.pc = "twice", !.twice = fixResourceStr(codec.once)]
    /\ UNCHANGED <<fs, versionPrefixes, last, threads>>

NextSanitize == Sanitize \/ SanitizeAgain

SpecSanitize == InitSanitize /\ [][NextSanitize]_vars

\* C24: sanitising a resource string a second time changes nothing:
\* _fixResourceStr(_fixResourceStr(s)) = _fixResourceStr(s).
C24_SanitizeIdempotent ==
    codec.pc = "twice" => codec.twice = codec.once

\* a string holding a forbidden character has been sanitised twice
C24_Witness ==
    /\ codec.pc = "twice"
    /\ codec.once # codec.x
    /\ \E i \in DOMAIN codec.x : codec.x[i] = "_" /\ codec.once[i] = "-"

\* the path copyToPublish is to write for the file given: the publish folder resolved
\* for it, then its name encoded again with no version block
PublishPath ==
    publishFolderOf(last.filePath) \o
        <<NameOf(Reference.projectID, Reference.ramType, Reference.objectShortName,
                 Reference.ramStep, Reference.resourceStr, Absent, Reference.extension)>>

\* C25: copyToPublish of any existing file whose name decomposes, in a working, versions,
\* preview or publish folder, returns the publish folder resolved for it followed by its
\* name encoded again with no version block; after the call that file exists with the
\* content of the source, and the source is unchanged.
C25_Published ==
    (/\ last.op = "copyToPublish"
     /\ isfile(last.before, last.filePath)
     /\ Reference # NoneDict) =>
        /\ ~last.raised
        /\ last.path = PublishPath
        /\ isfile(fs, PublishPath)
        /\ fs[PublishPath].content = last.before[last.filePath].content
        /\ fs[last.filePath] = last.before[last.filePath]

\* C28: for every file v of a versions folder whose name decomposes, with or without a
\* version block, its resource tagged already or not, the save path of the file that
\* restoreVersionFile(v) made is the save path of v.
C28_RestoredSavesAsOriginal ==
    (/\ last.op = "restoreVersionFile"
     /\ OwnFolderName = VersionsFolderName
     /\ isfile(last.before, last.filePath)
     /\ Reference # NoneDict) =>
        /\ ~last.raised
        /\ \E ofRestored \in {getSaveFilePath(versionPrefixes, last.path)} :
            \E ofVersion \in {getSaveFilePath(ofRestored.prefixes, last.filePath)} :
                /\ ~ofRestored.raised
                /\ ~ofVersion.raised
                /\ ofRestored.path = ofVersion.path

\* ---- one caller, one call after another: copyToVersion, then getLatestVersion ----

\* the number of calls of a session
MaxCalls == 2

\* the files a session commits: the working file and a version file of its lineage
SessionArgs == {WorkFolder \o <<PlainName>>, VersionsFolder \o <<V003Name>>}

\* the disks a session starts on: the working file, and at most one more file
SessionDisks ==
    {OwnerDiskWith(chosen \cup {i \in DOMAIN OwnerEntries :
                                    OwnerEntries[i].path = WorkFolder \o <<PlainName>>})
        : chosen \in {c \in SUBSET {i \in DOMAIN OwnerEntries :
                                        /\ OwnerEntries[i].kind = "file"
                                        /\ \/ OwnerEntries[i].path \in SessionArgs
                                           \/ dirname(OwnerEntries[i].path) = VersionsFolder} :
                        Cardinality(c) <= 1}}

InitSession ==
    /\ fs \in SessionDisks
    /\ versionPrefixes = InitialVersionPrefixes
    /\ last = NoCall
    /\ codec = CodecIdle
    /\ threads = NoThreads

\* copyToVersion( filePath, increment, stateShortName )
SessionCopyToVersion ==
    /\ last.calls < MaxCalls
    /\ \E filePath \in SessionArgs, increment \in BOOLEAN, stateShortName \in {<<>>, wip} :
        \E foundFiles \in Listings(filePath) :
            \E r \in {copyToVersion(fs, versionPrefixes, filePath, increment,
                                     stateShortName, foundFiles)} :
                /\ fs' = r.fs
                /\ versionPrefixes' = r.prefixes
                /\ last' = [NoCall EXCEPT !.op = "copyToVersion",
                                          !.filePath = filePath, !.increment = increment,
                                          !.state = stateShortName,
                                          !.raised = r.raised, !.path = r.path,
                                          !.before = fs, !.listing = foundFiles,
                                          !.calls = last.calls + 1]
    /\ UNCHANGED <<codec, threads>>

\* getLatestVersion( filePath ) of the file that copyToVersion has just returned from
SessionGetLatestVersion ==
    /\ last.calls < MaxCalls
    /\ last.op = "copyToVersion"
    /\ ~last.raised
    /\ last.path # NonePath
    /\ \E foundFiles \in Listings(last.filePath) :
        \E r \in {getLatestVersion(fs, versionPrefixes, last.filePath, <<>>, FALSE,
                                    foundFiles)} :
            /\ fs' = r.fs
            /\ versionPrefixes' = r.prefixes
            /\ last' = [last EXCEPT !.op = "getLatestVersion",
                                    !.raised = r.raised, !.version = r.version,
                                    !.stateOut = r.state, !.date = r.date,
                                    !.listing = foundFiles,
                                    !.calls = last.calls + 1]
    /\ UNCHANGED <<codec, threads>>

NextSession == SessionCopyToVersion \/ SessionGetLatestVersion

SpecSession == InitSession /\ [][NextSession]_vars

\* the version files of the lineage of the file given, after the call
VersionedAfter ==
    {p \in DOMAIN fs :
        /\ p # <<>>
        /\ dirname(p) = versionFolderOf(last.filePath)
        /\ fs[p].kind = "file"
        /\ Blocks(p) # NoneDict
        /\ LineageKey(Blocks(p)) = LineageKey(Reference)
        /\ Blocks(p).version # -1}

\* the version files of the lineage that had its highest version before the call
LatestFiles == {q \in Versioned : Blocks(q).version = Highest}

\* the canonical path of the version of q: its state, then its number on three digits
CanonicalOf(q) ==
    versionFolderOf(last.filePath) \o
        <<NameOf(Reference.projectID, Reference.ramType, Reference.objectShortName,
                 Reference.ramStep, Reference.resourceStr,
                 Blocks(q).state \o ZeroPad(str(Blocks(q).version), 3),
                 Reference.extension)>>

\* C29: copyToVersion with increment=False and no state given, of an existing file whose
\* lineage has the latest version n >= 1, targets version n in the state of a latest
\* file: the canonical file of that version and state holds the content of the source
\* afterwards (the source itself when it is that file), no version file above n exists,
\* and the lineage has the version files it had when the latest file has the canonical
\* name.
C29_OverwritesLatest ==
    (/\ last.op = "copyToVersion"
     /\ ~last.increment
     /\ last.state = <<>>
     /\ isfile(last.before, last.filePath)
     /\ Reference # NoneDict
     /\ Highest >= 1) =>
        /\ \A p \in VersionedAfter : Blocks(p).version <= Highest
        /\ \E q \in LatestFiles :
            /\ IF last.filePath = CanonicalOf(q)
               THEN fs = last.before
               ELSE /\ ~last.raised
                    /\ last.path = CanonicalOf(q)
                    /\ isfile(fs, Written)
                    /\ fs[Written].content = last.before[last.filePath].content
            /\ q = CanonicalOf(q) => VersionedAfter = Versioned

\* the version files of the lineage that the call found and that are there afterwards
\* with the content they had
KeptVersions == {p \in Versioned : isfile(fs, p) /\ fs[p] = last.before[p]}

\* the highest version of the lineage after the call, 0 when it has none
HighestAfter == IF VersionedAfter = {} THEN 0 ELSE Max(VersionsOf(VersionedAfter))

C27_LatestIsWritten ==
    (last.op = "getLatestVersion" /\ last.calls > 0) =>
        /\ ~last.raised
        /\ last.version = Blocks(last.path).version
        /\ last.stateOut = Blocks(last.path).state

\* ---- RamItem: the history queries of an item, one after the other ----
\* RamObject.getObjectShortName gives a string back as it is; the item is the asset TRI of
\* the project FPE, and its step folder is the working folder, or '' when it has none.

\* RamItem.versionFolderPath: the folder ('' without a step folder), and the disk once
\* it has created the folder
versionFolderPath(fsys, stepFolder) ==
    IF stepFolder = <<>> THEN [folder |-> <<>>, fs |-> fsys]
    ELSE LET versionFolder == buildPath(stepFolder, VersionsFolderName)
         IN  [folder |-> versionFolder,
              fs     |-> IF ~isdir(fsys, versionFolder) THEN makedirs(fsys, versionFolder)
                         ELSE fsys]

\* RamItem.latestVersion: the loop over os.listdir( versionFolder ) from the i-th name
\* on.  fileInfo['step'] raises KeyError when the dictionary has no such key.
RECURSIVE latestVersionLoop(_, _, _, _, _, _, _)
latestVersionLoop(alts, foundFiles, i, resource, state, step, highestVersion) ==
    IF i > Len(foundFiles) THEN [raised |-> FALSE, version |-> highestVersion, calls |-> i - 1]
    ELSE Only({
        IF fileInfo = NoneDict
        THEN latestVersionLoop(alts, foundFiles, i + 1, resource, state, step, highestVersion)
        ELSE IF "step" \notin DOMAIN fileInfo
        THEN [raised |-> TRUE, version |-> highestVersion, calls |-> i]
        ELSE IF fileInfo.step # step /\ step # <<>>
        THEN latestVersionLoop(alts, foundFiles, i + 1, resource, state, step, highestVersion)
        ELSE IF "resource" \notin DOMAIN fileInfo
        THEN [raised |-> TRUE, version |-> highestVersion, calls |-> i]
        ELSE IF /\ fileInfo.resource = resource
                /\ (fileInfo.state = state \/ state = <<>>)
                /\ fileInfo.version > highestVersion
        THEN latestVersionLoop(alts, foundFiles, i + 1, resource, state, step, fileInfo.version)
        ELSE latestVersionLoop(alts, foundFiles, i + 1, resource, state, step, highestVersion)
        : fileInfo \in {decomposeRamsesFileName(alts, foundFiles[i])}})

\* RamItem.latestVersionFilePath: the loop over os.listdir( versionFolderPath ) from the
\* i-th name on; found is the highest version and its file so far
RECURSIVE latestVersionFilePathLoop(_, _, _, _, _, _, _, _)
latestVersionFilePathLoop(alts, versionFolder, foundFiles, i, resource, state, step, found) ==
    IF i > Len(foundFiles) THEN [raised |-> FALSE, path |-> found.versionFile, calls |-> i - 1]
    ELSE Only({
        IF fileInfo = NoneDict
        THEN latestVersionFilePathLoop(alts, versionFolder, foundFiles, i + 1, resource, state, step, found)
        ELSE IF "step" \notin DOMAIN fileInfo
        THEN [raised |-> TRUE, path |-> <<>>, calls |-> i]
        ELSE IF fileInfo.step # step /\ step # <<>>
        THEN latestVersionFilePathLoop(alts, versionFolder, foundFiles, i + 1, resource, state, step, found)
        ELSE IF "resource" \notin DOMAIN fileInfo
        THEN [raised |-> TRUE, path |-> <<>>, calls |-> i]
        ELSE IF /\ fileInfo.resource = resource
                /\ (fileInfo.state = state \/ state = <<>>)
                /\ fileInfo.version > found.highestVersion
        THEN latestVersionFilePathLoop(alts, versionFolder, foundFiles, i + 1, resource, state, step,
                [highestVersion |-> fileInfo.version,
                 versionFile    |-> buildPath(versionFolder, foundFiles[i])])
        ELSE latestVersionFilePathLoop(alts, versionFolder, foundFiles, i + 1, resource, state, step, found)
        : fileInfo \in {decomposeRamsesFileName(alts, foundFiles[i])}})

\* RamItem.versionFilePaths: the loop over os.listdir( versionFolderPath ) from the i-th
\* name on, for the asset TRI of the project FPE; files is the list so far
RECURSIVE versionFilePathsLoop(_, _, _, _, _, _, _)
versionFilePathsLoop(alts, versionFolder, foundFiles, i, resource, step, files) ==
    IF i > Len(foundFiles) THEN [raised |-> FALSE, files |-> files, calls |-> i - 1]
    ELSE Only({
        IF fileInfo = NoneDict
        THEN versionFilePathsLoop(alts, versionFolder, foundFiles, i + 1, resource, step, files)
        ELSE IF "project" \notin DOMAIN fileInfo
        THEN [raised |-> TRUE, files |-> <<>>, calls |-> i]
        ELSE IF fileInfo.project # FPE
        THEN versionFilePathsLoop(alts, versionFolder, foundFiles, i + 1, resource, step, files)
        ELSE IF "type" \notin DOMAIN fileInfo
        THEN [raised |-> TRUE, files |-> <<>>, calls |-> i]
        ELSE IF fileInfo.type # ASSET
        THEN versionFilePathsLoop(alts, versionFolder, foundFiles, i + 1, resource, step, files)
        ELSE IF "step" \notin DOMAIN fileInfo \/ "object" \notin DOMAIN fileInfo
        THEN [raised |-> TRUE, files |-> <<>>, calls |-> i]
        ELSE IF fileInfo.step # step \/ fileInfo.object # TRI
        THEN versionFilePathsLoop(alts, versionFolder, foundFiles, i + 1, resource, step, files)
        ELSE IF "resource" \notin DOMAIN fileInfo
        THEN [raised |-> TRUE, files |-> <<>>, calls |-> i]
        ELSE IF fileInfo.resource = resource
        THEN versionFilePathsLoop(alts, versionFolder, foundFiles, i + 1, resource, step,
                Append(files, buildPath(versionFolder, foundFiles[i])))
        ELSE versionFilePathsLoop(alts, versionFolder, foundFiles, i + 1, resource, step, files)
        : fileInfo \in {decomposeRamsesFileName(alts, foundFiles[i])}})

\* the disks an item is queried on: its step folder, and some entries of its versions
\* folder
ItemDisks ==
    {OwnerDiskWith(chosen)
        : chosen \in {c \in SUBSET {i \in DOMAIN OwnerEntries :
                                        dirname(OwnerEntries[i].path) = VersionsFolder} :
                        Cardinality(c) <= MaxEntries}}

InitItem ==
    /\ fs \in ItemDisks
    /\ versionPrefixes = InitialVersionPrefixes
    /\ last = NoCall
    /\ codec = CodecIdle
    /\ threads = NoThreads

\* item.latestVersionFilePath( resource, '', step ), the first query of the item
ItemLatestVersionFilePath ==
    /\ last.calls = 0
    /\ \E stepFolder \in {WorkFolder, <<>>}, resource \in {<<>>, res}, step \in {<<>>, MOD} :
        \E vf \in {versionFolderPath(fs, stepFolder)} :
            \E foundFiles \in Orderings(listdir(vf.fs, vf.folder)) :
                \E r \in {IF vf.folder = <<>> THEN [raised |-> FALSE, path |-> <<>>, calls |-> 0]
                          ELSE latestVersionFilePathLoop(getVersionRegExStr(versionPrefixes),
                                    vf.folder, foundFiles, 1, resource, <<>>, step,
                                    [highestVersion |-> -1, versionFile |-> <<>>])} :
                    /\ fs' = vf.fs
                    /\ versionPrefixes' = afterCalls(versionPrefixes, r.calls)
                    /\ last' = [NoCall EXCEPT !.op = "latestVersionFilePath",
                                              !.filePath = stepFolder,
                                              !.resource = resource, !.step = step,
                                              !.raised = r.raised, !.path = r.path,
                                              !.before = fs, !.listing = foundFiles,
                                              !.calls = 1]
    /\ UNCHANGED <<codec, threads>>

\* item.versionFilePaths( resource, step ), the second query
ItemVersionFilePaths ==
    /\ last.op = "latestVersionFilePath"
    /\ \E vf \in {versionFolderPath(fs, last.filePath)} :
        \E foundFiles \in Orderings(listdir(vf.fs, vf.folder)) :
            \E alts \in {getVersionRegExStr(versionPrefixes)} :
                \E r \in {IF vf.folder = <<>> THEN [raised |-> FALSE, files |-> <<>>, calls |-> 0]
                          ELSE versionFilePathsLoop(alts, vf.folder, foundFiles, 1,
                                                    last.resource, last.step, <<>>)} :
                    /\ fs' = vf.fs
                    /\ versionPrefixes' = afterCalls(versionPrefixes, r.calls + Len(r.files))
                    /\ last' = [last EXCEPT !.op = "versionFilePaths",
                                            !.raised = last.raised \/ r.raised,
                                            !.list = sortByVersion(alts, r.files),
                                            !.calls = 2]
    /\ UNCHANGED <<codec, threads>>

\* item.latestVersion( resource, '', step ), the third query
ItemLatestVersion ==
    /\ last.op = "versionFilePaths"
    /\ \E vf \in {versionFolderPath(fs, last.filePath)} :
        \E foundFiles \in Orderings(listdir(vf.fs, vf.folder)) :
            \E r \in {IF vf.folder = <<>> THEN [raised |-> FALSE, version |-> -1, calls |-> 0]
                      ELSE latestVersionLoop(getVersionRegExStr(versionPrefixes), foundFiles, 1,
                                             last.resource, <<>>, last.step, -1)} :
                /\ fs' = vf.fs
                /\ versionPrefixes' = afterCalls(versionPrefixes, r.calls)
                /\ last' = [last EXCEPT !.op = "latestVersion",
                                        !.raised = last.raised \/ r.raised,
                                        !.version = r.version,
                                        !.calls = 3]
    /\ UNCHANGED <<codec, threads>>

NextItem == ItemLatestVersionFilePath \/ ItemVersionFilePaths \/ ItemLatestVersion

SpecItem == InitItem /\ [][NextItem]_vars

\* C30: the history queries of a RamItem agree, whatever its versions folder holds and for
\* every resource and step: none raises; when versionFilePaths(resource, step) is not
\* empty, latestVersionFilePath(resource, '', step) is its last element and
\* latestVersion(resource, '', step) is the version of the name of that file; and
\* latestVersion is -1 exactly when the list is empty.
C30_ItemQueriesAgree ==
    (last.op = "latestVersion" /\ last.filePath # <<>>) =>
        /\ ~last.raised
        /\ last.list # <<>> =>
                /\ last.path = last.list[Len(last.list)]
                /\ last.version = Blocks(last.path).version
        /\ last.version = -1 <=> last.list = <<>>

=============================================================================
